---- MODULE Spec2Model ----
(***************************************************************************)
(* Transcript stabilisation engine of SoniLiveText:                        *)
(*   src/src/soniox/state.rs           TranscriptionState                  *)
(*   src/src/soniox/transcribe_mode.rs TranscribeMode                      *)
(*   src/src/soniox/translate_mode.rs  TranslateMode                       *)
(*   src/src/types/audio.rs            AudioSubtitle                       *)
(*                                                                         *)
(* A Rust String is a sequence of one-character strings (ASCII only, so    *)
(* byte offsets and character offsets coincide).  A byte offset i of the   *)
(* source is position i + 1 of the sequence.  Option<T> is a set with at   *)
(* most one element, except Option<String> speakers, where None is the     *)
(* string "none".  The front of a VecDeque is position 1 of a sequence.    *)
(***************************************************************************)
EXTENDS Integers, Sequences, FiniteSets, TLC

(***************************************************************************)
(* Program constants.                                                      *)
(***************************************************************************)
\* push_final: the "orphan guard" slack added to max_chars_in_block
OrphanSlack == 15
\* push_final: width of the window after the limit searched for whitespace
SplitWindow == 10
\* process_transcription_event: safety_buffer of the overflow freeze
SafetyBuffer == 25
\* process_event (both modes): floor of split_limit
SplitFloor == 100
\* process_event (both modes): slack of the size freeze
SizeSlack == 50
\* stability_timeout_ms, counted in calls of update_animation
StabilityTimeout == 1

(***************************************************************************)
(* Bounds of the model.                                                    *)
(***************************************************************************)
\* largest max_lines an engine is constructed with
MaxLines == 3
\* max_chars_in_block the engine is constructed with
MaxChars == 5
\* number of batches delivered to handle_incoming in one run
MaxBatches == 3
\* number of update_animation calls in one run
MaxTicks == 3
\* pending batches the queue holds before the next update_animation
MaxQueue == 2
\* largest end_ms a token carries
MaxMs == 2

\* the non-zero delay of the pending queue, in steps of the clock
LongDelay == 3

\* the audio messages the capture side sends before it stops or goes away
MaxFrames == 2

\* the samples of the longest audio buffer
MaxBuffer == 2

(***************************************************************************)
(* Strings.                                                                *)
(***************************************************************************)
Min(S) == CHOOSE x \in S : \A y \in S : x <= y

Max(S) == CHOOSE x \in S : \A y \in S : x >= y

\* char::is_whitespace
IsWhitespace(c) == c \in {" ", "\n"}

\* the closure |c| c == '.' || c == '?' || c == '!'
IsTerminator(c) == c \in {".", "?", "!"}

\* &s[..n]
Take(s, n) == SubSeq(s, 1, n)

\* &s[n..]
Drop(s, n) == SubSeq(s, n + 1, Len(s))

\* str::starts_with(&str)
StartsWith(s, p) == Len(p) <= Len(s) /\ Take(s, Len(p)) = p

\* str::contains(&str)
Contains(s, sub) ==
    \E i \in 0..(Len(s) - Len(sub)) : SubSeq(s, i + 1, i + Len(sub)) = sub

\* str::ends_with(char::is_whitespace)
EndsWithWhitespace(s) == Len(s) > 0 /\ IsWhitespace(s[Len(s)])

\* str::starts_with(char::is_whitespace)
StartsWithWhitespace(s) == Len(s) > 0 /\ IsWhitespace(s[1])

\* str::trim_end
TrimEnd(s) ==
    LET keep == {i \in 1..Len(s) : ~IsWhitespace(s[i])}
    IN  IF keep = {} THEN <<>> ELSE Take(s, Max(keep))

\* n copies of the character c
Rep(c, n) == [i \in 1..n |-> c]

(***************************************************************************)
(* AudioSubtitle (last_update is the input "due" of update_animation).     *)
(***************************************************************************)
NoSpeaker == "none"

\* AudioSubtitle::new
New(speaker, text) ==
    [speaker |-> speaker, text |-> text, displayed_text |-> <<>>]

\* AudioSubtitle::new_complete
NewComplete(speaker, text) ==
    [speaker |-> speaker, text |-> text, displayed_text |-> text]

\* "... waiting for the sound ..."
DefaultText ==
    <<".", ".", ".", " ", "w", "a", "i", "t", "i", "n", "g", " ", "f", "o",
      "r", " ", "t", "h", "e", " ", "s", "o", "u", "n", "d", " ", ".", ".",
      ".">>

\* impl Default for AudioSubtitle
DefaultSubtitle == NewComplete(NoSpeaker, DefaultText)

\* the snap-down forgotten
SubtitleUpdateAnimationNoSnap(b, due) ==
    IF Len(b.displayed_text) >= Len(b.text)
    THEN <<b, FALSE>>
    ELSE IF due
         THEN <<[b EXCEPT !.displayed_text =
                    Append(b.displayed_text, b.text[Len(b.displayed_text) + 1])],
                TRUE>>
         ELSE <<b, FALSE>>

\* the characters of the model that UTF-8 encodes in two bytes
Wide == {"é"}

\* str::len: the length of a string in bytes
ByteLen(str) == Len(str) + Cardinality({i \in 1..Len(str) : str[i] \in Wide})

\* self.text.chars().nth(n), an Option<char>
Nth(str, n) == IF n < Len(str) THEN {str[n + 1]} ELSE {}

\* the  if let Some(c)  of update_animation: <<block, returned bool>>
PushNext(b, c) ==
    IF c = {}
    THEN <<b, FALSE>>
    ELSE <<[b EXCEPT !.displayed_text = Append(@, CHOOSE x \in c : TRUE)],
           TRUE>>

\* AudioSubtitle::update_animation: <<block after the call, returned bool>>.
\* due stands for  ignore_timer || self.last_update.elapsed() > 20ms.
\* The guards compare lengths in bytes (String::len), the step counts
\* characters (chars().count(), chars().nth()).
SubtitleUpdateAnimation(b, due) ==
    IF ByteLen(b.displayed_text) >= ByteLen(b.text)
    THEN IF ByteLen(b.displayed_text) > ByteLen(b.text)
         THEN <<[b EXCEPT !.displayed_text = b.text], TRUE>>
         ELSE <<b, FALSE>>
    ELSE IF due
         THEN PushNext(b, Nth(b.text, Len(b.displayed_text)))
         ELSE <<b, FALSE>>

(***************************************************************************)
(* push_final (state.rs 313-430).                                          *)
(***************************************************************************)
\* split_idx of one loop iteration (state.rs 324-352), an Option<usize>:
\* None when the whole text is the chunk
SplitIndex(text, max_chars) ==
    IF Len(text) > max_chars /\ ~(Len(text) <= max_chars + OrphanSlack)
    THEN LET limit == max_chars
             before == {i \in 0..(Len(text) - 1) :
                           i <= limit /\ IsWhitespace(text[i + 1])}
             after == {i \in 0..(Len(text) - 1) :
                           /\ i > limit
                           /\ i < limit + SplitWindow
                           /\ IsWhitespace(text[i + 1])}
         IN  {IF before # {} THEN Max(before)
              ELSE IF after # {} THEN Min(after)
              ELSE IF limit < Len(text) THEN limit
              ELSE Len(text)}
    ELSE {}

\* chunk of (chunk, remainder) (state.rs 324-352)
ChunkAt(text, split_idx) ==
    IF split_idx = {} THEN text ELSE Take(text, CHOOSE i \in split_idx : TRUE)

\* remainder of (chunk, remainder), an Option<String>
RemainderAt(text, split_idx) == {Drop(text, i) : i \in split_idx}

\* should_start_new (state.rs 355-397); lines is finishes_lines
ShouldStartNew(lines, chunk, max_chars) ==
    IF lines = <<>>
    THEN TRUE
    ELSE LET last == lines[1]
             trimmed == TrimEnd(last.text)
             ends_sentence ==
                 Len(trimmed) > 0 /\ IsTerminator(trimmed[Len(trimmed)])
             is_continuation ==
                 /\ Len(last.text) > 0
                 /\ ~EndsWithWhitespace(last.text)
                 /\ ~StartsWithWhitespace(chunk)
         IN  IF Len(last.text) + Len(chunk) > max_chars + OrphanSlack
             THEN ~is_continuation
             ELSE ends_sentence

\* the separator of the smart merge (state.rs 402-404)
Separator(last_text, chunk) ==
    IF ~EndsWithWhitespace(last_text) /\ ~StartsWithWhitespace(chunk)
    THEN <<" ">> ELSE <<>>

\* last.text after the merge (state.rs 402-405)
MergedText(last_text, chunk) ==
    last_text \o Separator(last_text, chunk) \o chunk

\* the merge that reveals the old text of the block with the new
MergeChunkStale(lines, chunk, instant) ==
    [lines EXCEPT ![1].text = chunk,
                  ![1].displayed_text =
                      IF instant THEN chunk ELSE @]

\* The merge into the front block (state.rs 399-408)
MergeChunk(lines, chunk, instant) ==
    [lines EXCEPT ![1].text = MergedText(@, chunk),
                  ![1].displayed_text =
                      IF instant THEN MergedText(lines[1].text, chunk) ELSE @]

\* The new block (state.rs 409-416)
PushBlock(lines, speaker, chunk, instant) ==
    <<IF instant THEN NewComplete(speaker, chunk) ELSE New(speaker, chunk)>>
        \o lines

\* the eviction forgotten
EvictNever(lines, max_lines) == lines

\* the eviction at the wrong end: pop_front
EvictNewest(lines, max_lines) ==
    IF Len(lines) > max_lines - 1 THEN Drop(lines, 1) ELSE lines

\* The eviction (state.rs 418-420): max_lines is a usize >= 1
Evict(lines, max_lines) ==
    IF Len(lines) > max_lines - 1 THEN Take(lines, Len(lines) - 1) ELSE lines

RECURSIVE PushFinalLoop(_, _, _, _, _, _, _)
\* The end of a loop iteration (state.rs 422-426).  An iteration that leaves
\* the remaining text as long as it was repeats forever: diverged.
NextIteration(kept, speaker, text, remainder, instant, max_chars, max_lines, blocks_added) ==
    IF remainder = {}
    THEN [lines |-> kept, added |-> blocks_added, diverged |-> FALSE]
    ELSE IF \E r \in remainder : Len(r) >= Len(text)
    THEN [lines |-> kept, added |-> blocks_added, diverged |-> TRUE]
    ELSE PushFinalLoop(kept, speaker, CHOOSE r \in remainder : TRUE, instant,
                       max_chars, max_lines, blocks_added)

\* a loop iteration that also starts a block when the speaker changed
PlaceChunkBySpeaker(lines, speaker, text, chunk, remainder, instant, max_chars, max_lines, blocks_added) ==
    IF \/ ShouldStartNew(lines, chunk, max_chars)
       \/ lines[1].speaker # speaker
    THEN NextIteration(Evict(PushBlock(lines, speaker, chunk, instant),
                             max_lines),
                       speaker, text, remainder, instant, max_chars,
                       max_lines, blocks_added + 1)
    ELSE NextIteration(Evict(MergeChunk(lines, chunk, instant), max_lines),
                       speaker, text, remainder, instant, max_chars,
                       max_lines, blocks_added)

\* A loop iteration from should_start_new on (state.rs 355-426)
PlaceChunk(lines, speaker, text, chunk, remainder, instant, max_chars, max_lines, blocks_added) ==
    IF ShouldStartNew(lines, chunk, max_chars)
    THEN NextIteration(Evict(PushBlock(lines, speaker, chunk, instant),
                             max_lines),
                       speaker, text, remainder, instant, max_chars,
                       max_lines, blocks_added + 1)
    ELSE NextIteration(Evict(MergeChunk(lines, chunk, instant), max_lines),
                       speaker, text, remainder, instant, max_chars,
                       max_lines, blocks_added)

\* A loop iteration once split_idx is known
SplitAndPlace(lines, speaker, text, split_idx, instant, max_chars, max_lines, blocks_added) ==
    PlaceChunk(lines, speaker, text, ChunkAt(text, split_idx),
               RemainderAt(text, split_idx), instant, max_chars, max_lines,
               blocks_added)

\* The loop of push_final (state.rs 321-427)
PushFinalLoop(lines, speaker, text, instant, max_chars, max_lines, blocks_added) ==
    IF text = <<>>
    THEN [lines |-> lines, added |-> blocks_added, diverged |-> FALSE]
    ELSE SplitAndPlace(lines, speaker, text, SplitIndex(text, max_chars),
                       instant, max_chars, max_lines, blocks_added)

\* the engine after the loop left r: .st, and the returned blocks_added: .added
Pushed(s, r) ==
    [st |-> [s EXCEPT !.finishes_lines = r.lines,
                      !.hung = s.hung \/ r.diverged],
     added |-> r.added]

\* push_final (state.rs 313-430) on the engine state s
PushFinal(s, speaker, text, instant) ==
    Pushed(s, PushFinalLoop(s.finishes_lines, speaker, text, instant,
                            s.max_chars_in_block, s.max_lines, 0))

\* the text of the interim line forgotten where the line is kept
UpdateInterimSpeakerOnly(s, speaker, text) ==
    IF s.finishes_lines # <<>> /\ s.finishes_lines[1].speaker = speaker
    THEN [s EXCEPT !.interim_line = NewComplete(NoSpeaker, text)]
    ELSE [s EXCEPT !.interim_line.speaker = speaker]

\* the speaker put on the interim line in both arms
UpdateInterimLabelled(s, speaker, text) ==
    IF s.finishes_lines # <<>> /\ s.finishes_lines[1].speaker = speaker
    THEN [s EXCEPT !.interim_line = NewComplete(speaker, text)]
    ELSE [s EXCEPT !.interim_line.speaker = speaker,
                   !.interim_line.text = text]

\* update_interim (state.rs 432-453)
UpdateInterim(s, speaker, text) ==
    IF s.finishes_lines # <<>> /\ s.finishes_lines[1].speaker = speaker
    THEN [s EXCEPT !.interim_line = NewComplete(NoSpeaker, text)]
    ELSE [s EXCEPT !.interim_line.speaker = speaker,
                   !.interim_line.text = text]

\* for _ in 0..frozen_blocks_count { finishes_lines.pop_front(); }
PopGhosts(lines, n) == IF n >= Len(lines) THEN <<>> ELSE Drop(lines, n)

(***************************************************************************)
(* Token batch classification: the token loops of the three               *)
(* implementations of batch processing.                                    *)
(***************************************************************************)
Original == "original"

Translation == "translation"

NoStatus == "none"

\* the sanitizer tag of translate_mode.rs 71
EndTag == <<"<", "e", "n", "d", ">">>

\* the locals declared at the head of each processing function
EmptyAcc(last_final_ms) ==
    [full_interim_text |-> <<>>, interim_speaker |-> NoSpeaker,
     final_text_segment |-> <<>>, final_speaker |-> NoSpeaker,
     has_final |-> FALSE, max_ms |-> last_final_ms]

\* the final branch shared by the loops
TakeFinal(acc, token) ==
    [acc EXCEPT !.final_speaker = token.speaker,
                !.final_text_segment = @ \o token.text,
                !.has_final = TRUE]

\* the interim branch shared by the loops
TakeInterim(acc, token) ==
    [acc EXCEPT !.interim_speaker = token.speaker,
                !.full_interim_text = @ \o token.text]

\* end_ms is Some(e) with e <= last_final_ms
IsDuplicate(token, last_final_ms) ==
    \E e \in token.end_ms : e <= last_final_ms

\* the comparison with max_ms forgotten
TimingUpdateUnguarded(acc, token) ==
    IF token.end_ms # {}
    THEN [acc EXCEPT !.max_ms = CHOOSE e \in token.end_ms : TRUE]
    ELSE acc

\* max_ms after the "timing update" of a token
TimingUpdate(acc, token) ==
    IF \E e \in token.end_ms : e > acc.max_ms
    THEN [acc EXCEPT !.max_ms = CHOOSE e \in token.end_ms : TRUE]
    ELSE acc

\* loop body of process_transcription_event (state.rs 154-176)
LegacyToken(acc, token, last_final_ms) ==
    IF token.translation_status = Original THEN acc
    ELSE IF token.is_final THEN TakeFinal(acc, token)
    ELSE TakeInterim(acc, token)

\* loop body of TranscribeMode::process_event (transcribe_mode.rs 66-112)
TranscribeToken(acc, token, last_final_ms) ==
    LET is_original == token.translation_status = Original
        timed == IF is_original /\ token.is_final
                 THEN TimingUpdate(acc, token) ELSE acc
    IN  IF token.is_final
        THEN IF IsDuplicate(token, last_final_ms) THEN timed
             ELSE LET show_this_token == ~is_original
                  IN  IF show_this_token THEN TakeFinal(timed, token) ELSE timed
        ELSE TakeInterim(timed, token)

\* the strict filter forgotten: every tag is taken
TranslateTokenUnfiltered(acc, token, last_final_ms) ==
    IF Contains(token.text, EndTag) THEN acc
    ELSE IF token.is_final
    THEN IF IsDuplicate(token, last_final_ms) THEN TimingUpdate(acc, token)
         ELSE TakeFinal(TimingUpdate(acc, token), token)
    ELSE TakeInterim(acc, token)

\* loop body of TranslateMode::process_event (translate_mode.rs 69-115)
TranslateToken(acc, token, last_final_ms) ==
    IF Contains(token.text, EndTag) THEN acc
    ELSE LET is_translation == token.translation_status = Translation
         IN  IF ~is_translation THEN acc
             ELSE LET timed == IF token.is_final
                               THEN TimingUpdate(acc, token) ELSE acc
                  IN  IF token.is_final
                      THEN IF IsDuplicate(token, last_final_ms) THEN timed
                           ELSE TakeFinal(timed, token)
                      ELSE TakeInterim(timed, token)

\* The three implementations of batch processing: the engine's own
\* process_transcription_event (state.rs 146-310), which its
\* process_pending_events calls, and process_event of the application's two
\* modes.
Legacy == "legacy"

Transcribe == "transcribe"

Translate == "translate"

\* one token through the loop body of the engine's mode
ClassifyToken(mode, acc, token, last_final_ms) ==
    IF mode = Legacy THEN LegacyToken(acc, token, last_final_ms)
    ELSE IF mode = Transcribe THEN TranscribeToken(acc, token, last_final_ms)
    ELSE TranslateToken(acc, token, last_final_ms)

RECURSIVE ClassifyFrom(_, _, _, _, _)
\* for token in response.tokens, from token i on
ClassifyFrom(mode, acc, tokens, i, last_final_ms) ==
    IF i > Len(tokens) THEN acc
    ELSE ClassifyFrom(mode, ClassifyToken(mode, acc, tokens[i], last_final_ms),
                      tokens, i + 1, last_final_ms)

\* the locals after the token loop
Classify(mode, tokens, last_final_ms) ==
    ClassifyFrom(mode, EmptyAcc(last_final_ms), tokens, 1, last_final_ms)

(***************************************************************************)
(* History reconciliation and interim freezing.                            *)
(***************************************************************************)
\* the reset that clears the history and forgets the count
ResetHistoryKeepsCount(s) == [s EXCEPT !.frozen_interim_history = <<>>]

\* the reset after a confirmed or discarded speculation
ResetHistory(s) ==
    [s EXCEPT !.frozen_blocks_count = 0, !.frozen_interim_history = <<>>]

\* CASE 3 of the final branch, and the interim drift: pop the ghost blocks
Backtrack(s) ==
    [s EXCEPT !.finishes_lines = PopGhosts(@, s.frozen_blocks_count)]

\* push_final of the authoritative text and the reset that follows it
CommitFinal(s, final_speaker, text, instant) ==
    ResetHistory(PushFinal(s, final_speaker, text, instant).st)

\* the absorption case tested before the extension case
ReconcileFinalAbsorbFirst(s, final_speaker, final_text_segment, instant) ==
    IF StartsWith(s.frozen_interim_history, final_text_segment)
    THEN [s EXCEPT !.frozen_interim_history =
                       Drop(@, Len(final_text_segment))]
    ELSE IF StartsWith(final_text_segment, s.frozen_interim_history)
    THEN CommitFinal(s, final_speaker,
                     Drop(final_text_segment, Len(s.frozen_interim_history)),
                     instant)
    ELSE CommitFinal(Backtrack(s), final_speaker, final_text_segment, instant)

\* the absorption case taken for a confirmation of the whole speculation
ReconcileFinalAbsorbConfirms(s, final_speaker, final_text_segment, instant) ==
    IF StartsWith(final_text_segment, s.frozen_interim_history)
    THEN CommitFinal(s, final_speaker,
                     Drop(final_text_segment, Len(s.frozen_interim_history)),
                     instant)
    ELSE IF StartsWith(s.frozen_interim_history, final_text_segment)
    THEN [s EXCEPT !.frozen_interim_history =
                       Drop(@, Len(final_text_segment)),
                   !.frozen_blocks_count = 0]
    ELSE CommitFinal(Backtrack(s), final_speaker, final_text_segment, instant)

\* the absorption that drains the end of the history, not its beginning
ReconcileFinalDrainsTail(s, final_speaker, final_text_segment, instant) ==
    IF StartsWith(final_text_segment, s.frozen_interim_history)
    THEN CommitFinal(s, final_speaker,
                     Drop(final_text_segment, Len(s.frozen_interim_history)),
                     instant)
    ELSE IF StartsWith(s.frozen_interim_history, final_text_segment)
    THEN [s EXCEPT !.frozen_interim_history =
                       Take(@, Len(@) - Len(final_text_segment))]
    ELSE CommitFinal(Backtrack(s), final_speaker, final_text_segment, instant)

\* the absorption case forgotten: a final shorter than the history is
\* treated as a mismatch
ReconcileFinalNoAbsorption(s, final_speaker, final_text_segment, instant) ==
    IF StartsWith(final_text_segment, s.frozen_interim_history)
    THEN CommitFinal(s, final_speaker,
                     Drop(final_text_segment, Len(s.frozen_interim_history)),
                     instant)
    ELSE CommitFinal(Backtrack(s), final_speaker, final_text_segment, instant)

\* the  if has_final  block: state.rs 178-219, transcribe_mode.rs 116-134,
\* translate_mode.rs 119-140
ReconcileFinal(s, final_speaker, final_text_segment, instant) ==
    IF StartsWith(final_text_segment, s.frozen_interim_history)
    THEN CommitFinal(s, final_speaker,
                     Drop(final_text_segment, Len(s.frozen_interim_history)),
                     instant)
    ELSE IF StartsWith(s.frozen_interim_history, final_text_segment)
    THEN [s EXCEPT !.frozen_interim_history =
                       Drop(@, Len(final_text_segment))]
    ELSE CommitFinal(Backtrack(s), final_speaker, final_text_segment, instant)

\* the sentence split index (state.rs 250-258; find_sentence_split of
\* transcribe_mode.rs 155 and translate_mode.rs 161): an Option<usize>
FindSentenceSplit(text, limit) ==
    LET hits == {i \in 0..(Len(text) - 2) :
                    /\ i < limit
                    /\ IsTerminator(text[i + 1])
                    /\ IsWhitespace(text[i + 2])}
    IN  IF hits = {} THEN {} ELSE {Min(hits) + 1}

\* the overflow split index (state.rs 277-280, transcribe_mode.rs 164-167)
FindOverflowSplit(text, limit) ==
    LET hits == {i \in 0..(Len(text) - 1) :
                    i >= limit /\ IsWhitespace(text[i + 1])}
    IN  IF hits = {} THEN {} ELSE {Min(hits)}

\* the drift check forgetting the history while the ghost blocks stay
InterimDriftKeepsGhosts(s, full_interim_text) ==
    IF ~StartsWith(full_interim_text, s.frozen_interim_history)
    THEN ResetHistory(s)
    ELSE s

\* the interim drift check (state.rs 227-237, transcribe_mode.rs 142-149)
InterimDrift(s, full_interim_text) ==
    IF ~StartsWith(full_interim_text, s.frozen_interim_history)
    THEN ResetHistory(Backtrack(s))
    ELSE s

\* every frozen chunk counted as a block, merged or not
CountedChunks(p) == [p.st EXCEPT !.frozen_blocks_count = @ + 1]

\* self.frozen_blocks_count += added, on the result p of push_final
Counted(p) == [p.st EXCEPT !.frozen_blocks_count = @ + p.added]

\* FREEZE: the chunk joins the history and is pushed
Freeze(s, interim_speaker, frozen_chunk, instant) ==
    Counted(PushFinal([s EXCEPT !.frozen_interim_history = @ \o frozen_chunk],
                      interim_speaker, frozen_chunk, instant))

\* the index the interim text is frozen at, an Option<usize>: the sentence
\* split, else the overflow split of a text longer than limit + slack
FreezeIndex(effective_interim, limit, slack) ==
    IF FindSentenceSplit(effective_interim, limit) # {}
    THEN FindSentenceSplit(effective_interim, limit)
    ELSE IF Len(effective_interim) > limit + slack
    THEN FindOverflowSplit(effective_interim, limit)
    ELSE {}

\* a freeze that leaves the separator after the chunk out of the remainder
FreezeAtTrimmed(synced, interim_speaker, effective_interim, idx, instant) ==
    IF idx = {}
    THEN <<synced, effective_interim>>
    ELSE <<Freeze(synced, interim_speaker,
                  Take(effective_interim, CHOOSE i \in idx : TRUE), instant),
           Drop(effective_interim, (CHOOSE i \in idx : TRUE) + 1)>>

\* the freeze at an index found, or none: <<state, text for the interim line>>
FreezeAt(synced, interim_speaker, effective_interim, idx, instant) ==
    IF idx = {}
    THEN <<synced, effective_interim>>
    ELSE <<Freeze(synced, interim_speaker,
                  Take(effective_interim, CHOOSE i \in idx : TRUE), instant),
           Drop(effective_interim, CHOOSE i \in idx : TRUE)>>

\* the interim text past the frozen history, and its freeze
FreezeEffective(synced, interim_speaker, effective_interim, limit, slack, instant) ==
    FreezeAt(synced, interim_speaker, effective_interim,
             FreezeIndex(effective_interim, limit, slack), instant)

\* the block after the drift check
FreezeSynced(synced, interim_speaker, full_interim_text, limit, slack, instant) ==
    FreezeEffective(synced, interim_speaker,
                    Drop(full_interim_text, Len(synced.frozen_interim_history)),
                    limit, slack, instant)

\* the  if !full_interim_text.is_empty()  block up to the interim update:
\* <<state, text for the interim line>>
FreezeInterim(s, interim_speaker, full_interim_text, limit, slack, instant) ==
    FreezeSynced(InterimDrift(s, full_interim_text), interim_speaker,
                 full_interim_text, limit, slack, instant)

\* update_interim with the remainder a freeze left; f is <<state, remainder>>
ShowInterim(f, interim_speaker) == UpdateInterim(f[1], interim_speaker, f[2])

\* process_transcription_event from line 225 on, c the locals after the loop
LegacyInterim(afterFinal, c) ==
    IF c.full_interim_text # <<>>
    THEN ShowInterim(
             FreezeInterim(afterFinal, c.interim_speaker, c.full_interim_text,
                           afterFinal.max_chars_in_block, SafetyBuffer, TRUE),
             c.interim_speaker)
    ELSE IF c.has_final THEN afterFinal
    ELSE UpdateInterim(afterFinal, c.interim_speaker, <<>>)

\* process_transcription_event from line 178 on
LegacyFinal(s, c) ==
    LegacyInterim(
        IF c.has_final
        THEN UpdateInterim(
                 ReconcileFinal(s, c.final_speaker, c.final_text_segment, TRUE),
                 c.interim_speaker, <<>>)
        ELSE s,
        c)

\* process_transcription_event (state.rs 146-310)
ProcessTranscriptionEvent(s, tokens) ==
    LegacyFinal(s, Classify(Legacy, tokens, s.last_final_ms))

\* state.max_chars_in_block.max(100)
SplitLimit(s) ==
    IF s.max_chars_in_block > SplitFloor
    THEN s.max_chars_in_block ELSE SplitFloor

\* "Final update to interim line" (transcribe_mode.rs 185-189,
\* translate_mode.rs 191-195); now is Instant::now()
FinalUpdate(s, interim_speaker, next_interim_text, now) ==
    UpdateInterim(IF s.interim_line.text # next_interim_text
                  THEN [s EXCEPT !.last_interim_update = now]
                  ELSE s,
                  interim_speaker, next_interim_text)

\* process_event from "let mut next_interim_text" on; f is <<state,
\* next_interim_text>>
ModeUpdate(f, interim_speaker, now) ==
    FinalUpdate(f[1], interim_speaker, f[2], now)

\* process_event from the  if !full_interim_text.is_empty()  block on
ModeInterim(afterFinal, c, now) ==
    ModeUpdate(IF c.full_interim_text # <<>>
               THEN FreezeInterim(afterFinal, c.interim_speaker,
                                  c.full_interim_text, SplitLimit(afterFinal),
                                  SizeSlack, FALSE)
               ELSE <<afterFinal, <<>>>>,
               c.interim_speaker, now)

\* process_event from  state.last_final_ms = max_ms  on
ModeFinal(timed, c, now) ==
    ModeInterim(IF c.has_final
                THEN ReconcileFinal(timed, c.final_speaker,
                                    c.final_text_segment, FALSE)
                ELSE timed,
                c, now)

\* process_event after the token loop, c the locals it left
ModeTimed(s, c, now) == ModeFinal([s EXCEPT !.last_final_ms = c.max_ms], c, now)

\* process_event of TranscribeMode (transcribe_mode.rs 57-190) and of
\* TranslateMode (translate_mode.rs 60-196)
ProcessEvent(mode, s, tokens, now) ==
    ModeTimed(s, Classify(mode, tokens, s.last_final_ms), now)

\* the processing of one batch by the engine's mode
Process(mode, s, tokens, now) ==
    IF s.hung THEN s
    ELSE IF mode = Legacy THEN ProcessTranscriptionEvent(s, tokens)
    ELSE ProcessEvent(mode, s, tokens, now)

(***************************************************************************)
(* The batches the recognition service delivers (the inputs of the model). *)
(***************************************************************************)
\* SonioxTranscriptionToken (types/soniox.rs 31-43), the fields the engine reads
Token(text, is_final, speaker, end_ms, translation_status) ==
    [text |-> text, is_final |-> is_final, speaker |-> speaker,
     end_ms |-> end_ms, translation_status |-> translation_status]

Txt_a == <<"a">>

Txt_aDot == <<"a", ".">>

Txt_ab == <<"a", "b">>

Txt_c == <<"c">>

Txt_aDotB == <<"a", ".", " ", "b">>

Txt_aDotBDot == <<"a", ".", " ", "b", ".">>

Txt_aDotBDotC == <<"a", ".", " ", "b", ".", " ", "c">>

Txt_abDot == <<"a", "b", ".">>

Txt_aBQuery == <<"a", " ", "b", "?">>

\* the utterances of the scenario: sentences that fit in one block
ScenarioTexts == {Txt_abDot, Txt_aBQuery, Txt_aDotBDot}

\* a text push_final splits: a word of max_chars, a space, a longer word
Txt_split == Rep("a", MaxChars) \o <<" ">> \o Rep("b", OrphanSlack + 1)

\* a text push_final splits that begins with whitespace: a space and a
\* word longer than max_chars + OrphanSlack
Txt_lead == <<" ">> \o Rep("b", MaxChars + OrphanSlack)

\* a sentence that fits in a block with the slack: letters and a full stop
Txt_sentence == Rep("a", MaxChars + 4) \o <<".">>

\* a word that fits in a block with the slack and not beside Txt_sentence
Txt_word == Rep("b", OrphanSlack - 4)

\* a word that begins with whitespace
Txt_spaceB == <<" ", "b">>

\* a text the size freeze of every mode cuts at its whitespace
Txt_overflow == Rep("a", SplitFloor) \o <<" ">> \o Rep("b", SizeSlack)

\* the tag the mode displays
VisibleTag(m) == IF m = Translate THEN Translation ELSE NoStatus

\* Texts of tokens whose tag the mode is specified to hide carry a marker
\* character that no other text of the model contains.
MarkerOf(tag) ==
    IF tag = Original THEN "O" ELSE IF tag = Translation THEN "T" ELSE "U"

HiddenTags(m) == {Original, Translation, NoStatus} \ {VisibleTag(m)}

\* a batch of one token with the visible tag and no end-time offset
Single(m, text, is_final, speaker) ==
    <<Token(text, is_final, speaker, {}, VisibleTag(m))>>

\* short phrases: interim texts that grow, finals that confirm or contradict
PhraseBatches(m) ==
    {Single(m, t, TRUE, "A") :
        t \in {Txt_a, Txt_aDot, Txt_ab, Txt_c, Txt_aDotBDot}}
    \cup {Single(m, t, FALSE, "A") :
        t \in {Txt_a, Txt_aDotB, Txt_aDotBDotC, Txt_c}}
    \cup {Single(m, Txt_c, FALSE, "B")}
    \cup {<<Token(Txt_aDot, TRUE, "A", {}, VisibleTag(m)),
            Token(Txt_c, FALSE, "A", {}, VisibleTag(m))>>}

\* tokens of every tag
TaggedBatches(m) ==
    {<<Token(<<MarkerOf(tag)>>, f, "A", {}, tag)>> :
        tag \in HiddenTags(m), f \in BOOLEAN}
    \cup {Single(m, Txt_ab, f, "A") : f \in BOOLEAN}
    \cup {<<Token(<<MarkerOf(Original)>>, TRUE, "A", {}, Original),
            Token(Txt_ab, TRUE, "A", {}, VisibleTag(m))>>}

\* the end_ms values of the model: None and Some(1) .. Some(MaxMs)
EndTimes == {{}} \cup {{e} : e \in 1..MaxMs}

\* final tokens with and without an end-time offset, which the service may
\* send again
TimedBatches(m) ==
    {<<Token(Txt_c, TRUE, "A", end_ms, tag)>> :
        end_ms \in EndTimes, tag \in {VisibleTag(m), Original}}

\* long texts
LongBatches(m) ==
    {Single(m, Txt_split, TRUE, "A"), Single(m, Txt_overflow, FALSE, "A"),
     Single(m, Txt_c, TRUE, "A"), Single(m, Txt_lead, TRUE, "A")}

\* final texts that push_final receives whole while nothing is frozen:
\* empty, short, finished and unfinished, with and without whitespace at the
\* join, of two sentences, near the block limit and beyond it, of two
\* speakers
CommitBatches(m) ==
    {Single(m, t, TRUE, "A") :
        t \in {<<>>, Txt_c, Txt_aDotBDot, Txt_spaceB, Txt_sentence,
               Txt_word, Txt_split}}
    \cup {Single(m, Txt_word, TRUE, "B")}

\* words with and without an accent
Txt_el == <<"e", "l">>

Txt_elAccent == <<"é", "l">>

Txt_eAccent == <<"é">>

\* interim texts the recognizer revises: an accent appears or goes, a word
\* is replaced
AccentBatches(m) ==
    {Single(m, t, FALSE, "A") : t \in {Txt_el, Txt_elAccent, Txt_eAccent, Txt_ab}}
    \cup {Single(m, Txt_c, TRUE, "A")}

Accents == "accents"

Phrases == "phrases"

Commits == "commits"

Tagged == "tagged"

Timed == "timed"

Long == "long"

Scenario == "scenario"

\* the state of the recognition service: a steady source of the batches of
\* profile p
Steady(p) ==
    [profile |-> p, text |-> <<>>, speaker |-> NoSpeaker, sent |-> 0,
     finalized |-> FALSE]

\* the state of the recognition service that recognises one utterance: its
\* text, its speaker, the length of the interim text it sent last, and
\* whether it has sent the final text
Utterance(text, speaker) ==
    [profile |-> Scenario, text |-> text, speaker |-> speaker, sent |-> 0,
     finalized |-> FALSE]

\* one utterance: interim texts that are growing proper prefixes of the text,
\* then the final text, then nothing
ScenarioBatches(m, svc) ==
    IF svc.finalized THEN {}
    ELSE {Single(m, Take(svc.text, k), FALSE, svc.speaker) :
             k \in (svc.sent + 1)..(Len(svc.text) - 1)}
         \cup {Single(m, svc.text, TRUE, svc.speaker)}

\* the batches the service in state svc may deliver next
Batches(m, svc) ==
    IF svc.profile = Scenario THEN ScenarioBatches(m, svc)
    ELSE IF svc.profile = Phrases THEN PhraseBatches(m)
    ELSE IF svc.profile = Tagged THEN TaggedBatches(m)
    ELSE IF svc.profile = Timed THEN TimedBatches(m)
    ELSE IF svc.profile = Commits THEN CommitBatches(m)
    ELSE IF svc.profile = Accents THEN AccentBatches(m)
    ELSE LongBatches(m)

\* the service after it delivered response
Delivered(svc, response) ==
    IF svc.profile # Scenario THEN svc
    ELSE IF response[1].is_final THEN [svc EXCEPT !.finalized = TRUE]
    ELSE [svc EXCEPT !.sent = Len(response[1].text)]

(***************************************************************************)
(* The engine.                                                             *)
(***************************************************************************)
VARIABLES
    lifecycle,               \* whether TranscriptionState::new has been called
                             \* and how it ended
    mode,                    \* the SonioxMode the application runs with
    service,                 \* the state of the recognition service
    finishes_lines,          \* VecDeque<AudioSubtitle>, front first
    interim_line,
    max_lines,
    max_chars_in_block,
    frozen_interim_history,
    frozen_blocks_count,
    event_queue,             \* VecDeque<(Instant, SonioxTranscriptionResponse)>
    smart_delay_ms,          \* in steps of the clock
    last_final_ms,
    last_interim_update,
    hung,                    \* a call has entered a loop it never leaves
    request_repaint,         \* what the last update_animation returned
    now,                     \* the clock: update_animation calls so far
    n_batches,               \* batches delivered so far
    confirmed_ms,            \* history: the highest end_ms of the final tokens
                             \* whose text a batch processed before the last
                             \* update_animation took
    processed,               \* the batches the last update_animation drained,
                             \* each with the engine before and after it
    stream                   \* listen_soniox_stream: where it is and what it
                             \* has sent on each connection

vars == <<lifecycle, mode, service, finishes_lines, interim_line, max_lines, max_chars_in_block,
          frozen_interim_history, frozen_blocks_count, event_queue,
          smart_delay_ms, last_final_ms, last_interim_update, hung,
          request_repaint, now, n_batches, confirmed_ms, processed, stream>>

\* the variables of the engine and of the service that feeds it
engine_vars == <<lifecycle, mode, service, finishes_lines, interim_line, max_lines,
                 max_chars_in_block, frozen_interim_history,
                 frozen_blocks_count, event_queue, smart_delay_ms,
                 last_final_ms, last_interim_update, hung, request_repaint,
                 now, n_batches, confirmed_ms, processed>>

\* the fields of TranscriptionState the processing functions use
Engine ==
    [finishes_lines |-> finishes_lines, interim_line |-> interim_line,
     max_lines |-> max_lines, max_chars_in_block |-> max_chars_in_block,
     frozen_interim_history |-> frozen_interim_history,
     frozen_blocks_count |-> frozen_blocks_count,
     smart_delay_ms |-> smart_delay_ms,
     last_final_ms |-> last_final_ms,
     last_interim_update |-> last_interim_update, hung |-> hung]

\* the fields after a call that left the engine as s
Becomes(s) ==
    /\ finishes_lines' = s.finishes_lines
    /\ interim_line' = s.interim_line
    /\ max_lines' = s.max_lines
    /\ max_chars_in_block' = s.max_chars_in_block
    /\ frozen_interim_history' = s.frozen_interim_history
    /\ frozen_blocks_count' = s.frozen_blocks_count
    /\ smart_delay_ms' = s.smart_delay_ms
    /\ last_final_ms' = s.last_final_ms
    /\ last_interim_update' = s.last_interim_update
    /\ hung' = s.hung

\* new has not been called yet
Unbuilt == "unbuilt"

\* new has returned an engine
Running == "running"

\* new has panicked
Panicked == "panicked"

\* what the fields of an engine hold while there is no engine
Absent == "absent"

\* the assertion forgotten
NewStateUnchecked(n, max_chars) ==
    {[finishes_lines |-> <<>>, interim_line |-> DefaultSubtitle,
      max_lines |-> n, max_chars_in_block |-> max_chars,
      frozen_interim_history |-> <<>>, frozen_blocks_count |-> 0,
      event_queue |-> <<>>, smart_delay_ms |-> 0, last_final_ms |-> 0,
      last_interim_update |-> 0, hung |-> FALSE]}

\* TranscriptionState::new (state.rs 19-33) called with max_lines = n: the
\* engine it returns, an empty set when assert!(max_lines > 0) panics
NewState(n, max_chars) ==
    IF ~(n > 0)
    THEN {}
    ELSE {[finishes_lines |-> <<>>, interim_line |-> DefaultSubtitle,
           max_lines |-> n, max_chars_in_block |-> max_chars,
           frozen_interim_history |-> <<>>, frozen_blocks_count |-> 0,
           event_queue |-> <<>>, smart_delay_ms |-> 0, last_final_ms |-> 0,
           last_interim_update |-> 0, hung |-> FALSE]}

\* TranscriptionState::new (state.rs 19-33), for every max_lines the
\* assertion admits, in an application started in any mode; the delay is
\* what set_smart_delay makes it
FreshEngine ==
    /\ lifecycle = Running
    /\ mode \in {Legacy, Transcribe, Translate}
    /\ max_lines \in 1..MaxLines
    /\ max_chars_in_block = MaxChars
    /\ finishes_lines = <<>>
    /\ interim_line = DefaultSubtitle
    /\ frozen_interim_history = <<>>
    /\ frozen_blocks_count = 0
    /\ event_queue = <<>>
    /\ last_final_ms = 0
    /\ last_interim_update = 0
    /\ hung = FALSE
    /\ request_repaint = FALSE
    /\ now = 0
    /\ n_batches = 0
    /\ confirmed_ms = 0
    /\ processed = <<>>

\* a fresh engine with the default delay, smart_delay_ms: 0
Constructed == FreshEngine /\ smart_delay_ms = 0 /\ stream = Absent

\* a fresh engine fed short phrases
Init == Constructed /\ service = Steady(Phrases)

\* a fresh engine fed tokens of every tag
InitTagged == Constructed /\ service = Steady(Tagged)

\* a fresh engine of an application mode (the modes are what keeps
\* last_final_ms) fed final tokens with end-time offsets
InitTimed == Constructed /\ mode # Legacy /\ service = Steady(Timed)

\* no engine yet: the application is about to call new with max_lines, which
\* may be zero
InitNew ==
    /\ lifecycle = Unbuilt
    /\ mode \in {Legacy, Transcribe, Translate}
    /\ service \in {Utterance(t, "A") : t \in ScenarioTexts}
    /\ max_lines \in 0..MaxLines
    /\ max_chars_in_block = MaxChars
    /\ finishes_lines = Absent
    /\ interim_line = Absent
    /\ frozen_interim_history = Absent
    /\ frozen_blocks_count = Absent
    /\ event_queue = Absent
    /\ smart_delay_ms = Absent
    /\ stream = Absent
    /\ last_final_ms = Absent
    /\ last_interim_update = Absent
    /\ hung = Absent
    /\ request_repaint = FALSE
    /\ now = 0
    /\ n_batches = 0
    /\ confirmed_ms = 0
    /\ processed = <<>>

\* a fresh engine fed long texts
InitLong == Constructed /\ service = Steady(Long)

\* a fresh engine fed interim texts with accents
InitReveal == Constructed /\ service = Steady(Accents)

\* a fresh engine after set_smart_delay, with the default delay or a
\* longer one, fed one utterance
InitDelay ==
    /\ FreshEngine
    /\ smart_delay_ms \in {0, LongDelay}
    /\ stream = Absent
    /\ service \in {Utterance(t, "A") : t \in ScenarioTexts}

\* a fresh engine fed final texts to commit
InitCommit == Constructed /\ service = Steady(Commits)

\* a fresh engine fed one utterance
InitScenario ==
    /\ Constructed
    /\ service \in {Utterance(t, sp) : t \in ScenarioTexts, sp \in {"A", NoSpeaker}}

\* the committed blocks before the interim line
IterCommittedFirst(s) == s.finishes_lines \o <<s.interim_line>>

\* iter (state.rs 46-48): the sequence it yields on the engine s
Iter(s) == <<s.interim_line>> \o s.finishes_lines

\* !response.tokens.iter().any(|t| t.is_final)
IsPurelyInterim(tokens) == \A i \in 1..Len(tokens) : ~tokens[i].is_final

\* response.tokens.first().map(|t| &t.speaker)
FirstSpeaker(tokens) == IF tokens = <<>> THEN {} ELSE {tokens[1].speaker}

\* the collapse stamps the entry anew
HandleIncomingRestamp(queue, response, at) ==
    IF /\ IsPurelyInterim(response)
       /\ queue # <<>>
       /\ IsPurelyInterim(queue[Len(queue)].response)
       /\ FirstSpeaker(response) = FirstSpeaker(queue[Len(queue)].response)
    THEN [queue EXCEPT ![Len(queue)] =
                           [timestamp |-> at, response |-> response]]
    ELSE Append(queue, [timestamp |-> at, response |-> response])

\* the test of the last pending batch forgotten: a purely interim batch
\* replaces whatever is pending last
HandleIncomingOverFinal(queue, response, at) ==
    IF /\ IsPurelyInterim(response)
       /\ queue # <<>>
       /\ FirstSpeaker(response) = FirstSpeaker(queue[Len(queue)].response)
    THEN [queue EXCEPT ![Len(queue)].response = response]
    ELSE Append(queue, [timestamp |-> at, response |-> response])

\* a batch that is not collapsed is put at the front of the queue
HandleIncomingFront(queue, response, at) ==
    IF /\ IsPurelyInterim(response)
       /\ queue # <<>>
       /\ IsPurelyInterim(queue[Len(queue)].response)
       /\ FirstSpeaker(response) = FirstSpeaker(queue[Len(queue)].response)
    THEN [queue EXCEPT ![Len(queue)].response = response]
    ELSE <<[timestamp |-> at, response |-> response]>> \o queue

\* handle_transcription (state.rs 107-144), handle_incoming
\* (transcribe_mode.rs 38-55, translate_mode.rs 41-58): the queue after it
HandleIncoming(queue, response, at) ==
    IF /\ IsPurelyInterim(response)
       /\ queue # <<>>
       /\ IsPurelyInterim(queue[Len(queue)].response)
       /\ FirstSpeaker(response) = FirstSpeaker(queue[Len(queue)].response)
    THEN [queue EXCEPT ![Len(queue)].response = response]
    ELSE Append(queue, [timestamp |-> at, response |-> response])

\* the token's text joins the final segment of its batch
Taken(m, token, ms) == ClassifyToken(m, EmptyAcc(ms), token, ms).has_final

\* the end_ms of the tokens of the batch of log entry e whose text joined the
\* final segment
TakenTimes(m, e) ==
    UNION {e.response[k].end_ms : k \in {i \in 1..Len(e.response) :
              Taken(m, e.response[i], e.pre.last_final_ms)}}

\* the highest end_ms of the final tokens whose text was taken by a batch
\* processed before entry j of log, base being the highest before the log
ConfirmedBefore(m, base, log, j) ==
    Max({base} \cup UNION {TakenTimes(m, log[i]) : i \in 1..(j - 1)})

\* The application calls TranscriptionState::new.
Construct ==
    /\ lifecycle = Unbuilt
    /\ IF NewState(max_lines, max_chars_in_block) = {}
       THEN /\ lifecycle' = Panicked
            /\ UNCHANGED <<finishes_lines, interim_line, max_lines,
                           max_chars_in_block, frozen_interim_history,
                           frozen_blocks_count, event_queue, smart_delay_ms,
                           last_final_ms, last_interim_update, hung>>
       ELSE /\ lifecycle' = Running
            /\ \E s \in NewState(max_lines, max_chars_in_block) :
                   Becomes(s) /\ event_queue' = s.event_queue
    /\ UNCHANGED <<mode, service, request_repaint, now, n_batches,
                   confirmed_ms, processed, stream>>

\* Instant::now() of handle_incoming: the clock has moved on with every
\* batch delivered and every frame run
InstantNow == now + n_batches

\* The service delivers a batch.
Enqueue ==
    /\ lifecycle = Running
    /\ ~hung
    /\ n_batches < MaxBatches
    /\ \E response \in Batches(mode, service) :
           /\ event_queue' = HandleIncoming(event_queue, response, InstantNow)
           /\ Len(event_queue') <= MaxQueue
           /\ service' = Delivered(service, response)
    /\ n_batches' = n_batches + 1
    /\ confirmed_ms' =
           ConfirmedBefore(mode, confirmed_ms, processed, Len(processed) + 1)
    /\ processed' = <<>>
    /\ UNCHANGED <<lifecycle, mode, finishes_lines, interim_line, max_lines,
                   max_chars_in_block, frozen_interim_history,
                   frozen_blocks_count, smart_delay_ms, last_final_ms,
                   last_interim_update, hung, request_repaint, now, stream>>

\* Instant::now() in process_pending_events: the clock when the next
\* update_animation runs
TickInstant == now + 1 + n_batches

\* the test that lets an entry wait one step longer than the delay
IsDueLate(entry, instant, delay) == instant - entry.timestamp > delay

\* now.duration_since(*timestamp) >= delay  (state.rs 55)
IsDue(entry, instant, delay) == instant - entry.timestamp >= delay

RECURSIVE Drain(_, _, _, _, _)
\* one iteration of the loop of process_pending_events: the batch at the
\* front left the engine s as t
Drained(m, s, t, queue, at, log) ==
    Drain(m, t, Tail(queue), at,
          Append(log, [pre |-> s, response |-> Head(queue).response,
                       post |-> t]))

\* process_pending_events (state.rs 50-62).  log collects the engine before
\* and after each batch.
Drain(m, s, queue, at, log) ==
    IF \/ queue = <<>>
       \/ s.hung
       \/ ~IsDue(Head(queue), TickInstant, s.smart_delay_ms)
    THEN [st |-> s, queue |-> queue, log |-> log]
    ELSE Drained(m, s, Process(m, s, Head(queue).response, at), queue, at, log)

\* for line in &mut self.finishes_lines (state.rs 72-79): the lines after it
AnimateLines(lines, due) ==
    [i \in 1..Len(lines) |-> SubtitleUpdateAnimation(lines[i], due)[1]]

\* whether a line.update_animation() of the loop returned true
AnyLineAnimated(lines, due) ==
    \E i \in 1..Len(lines) : SubtitleUpdateAnimation(lines[i], due)[2]

\* update_animation (state.rs 64-81) on the engine d.st that
\* process_pending_events left; due stands for the blocks' 20 ms timers
UpdateAnimation(d, due) ==
    /\ event_queue' = d.queue
    /\ processed' = d.log
    /\ IF d.st.hung
       THEN Becomes(d.st) /\ UNCHANGED request_repaint
       ELSE /\ Becomes([d.st EXCEPT
                   !.interim_line = SubtitleUpdateAnimation(@, due)[1],
                   !.finishes_lines = AnimateLines(@, due)])
            /\ request_repaint' =
                   (\/ SubtitleUpdateAnimation(d.st.interim_line, due)[2]
                    \/ AnyLineAnimated(d.st.finishes_lines, due))

\* The application's frame calls update_animation.
Tick ==
    /\ lifecycle = Running
    /\ ~hung
    /\ now < MaxTicks
    /\ LET d == Drain(mode, Engine, event_queue, now + 1, <<>>)
       IN  \E due \in BOOLEAN : UpdateAnimation(d, due)
    /\ now' = now + 1
    /\ confirmed_ms' =
           ConfirmedBefore(mode, confirmed_ms, processed, Len(processed) + 1)
    /\ UNCHANGED <<lifecycle, mode, service, n_batches, stream>>

Next == Enqueue \/ Tick

Spec == Init /\ [][Next]_vars

SpecTagged == InitTagged /\ [][Next]_vars

SpecScenario == InitScenario /\ [][Next]_vars

SpecTimed == InitTimed /\ [][Next]_vars

SpecLong == InitLong /\ [][Next]_vars

SpecCommit == InitCommit /\ [][Next]_vars

SpecDelay == InitDelay /\ [][Next]_vars

SpecReveal == InitReveal /\ [][Next]_vars

\* the application from the call of new on
NextNew == Construct \/ Enqueue \/ Tick

SpecNew == InitNew /\ [][NextNew]_vars

(***************************************************************************)
(* Vocabulary of the properties.                                           *)
(***************************************************************************)
RECURSIVE ConcatFrom(_, _)
\* the texts of lines[1..i], oldest (position i) first
ConcatFrom(lines, i) ==
    IF i = 0 THEN <<>> ELSE lines[i].text \o ConcatFrom(lines, i - 1)

\* the committed text: the blocks' texts from the oldest to the newest
CommittedText(lines) == ConcatFrom(lines, Len(lines))

\* s without its whitespace
StripWhitespace(s) == SelectSeq(s, LAMBDA c : ~IsWhitespace(c))

\* the records of the batches the last update_animation processed
Entries == {processed[i] : i \in 1..Len(processed)}

\* what the token loop of the mode made of the batch of entry e
Classified(e) == Classify(mode, e.response, e.pre.last_final_ms)

\* the batch of entry e has a final part and no interim part
FinalOnly(e) ==
    Classified(e).has_final /\ Classified(e).full_interim_text = <<>>

\* the batch of entry e has an interim part and no final part
InterimOnly(e) ==
    ~Classified(e).has_final /\ Classified(e).full_interim_text # <<>>

\* neither text is a prefix of the other
Mismatch(a, b) == ~StartsWith(a, b) /\ ~StartsWith(b, a)

\* the number of places sub occurs at in s
Occurrences(s, sub) ==
    Cardinality({i \in 0..(Len(s) - Len(sub)) :
                    SubSeq(s, i + 1, i + Len(sub)) = sub})

\* s ends with suf
IsSuffix(s, suf) == Len(suf) <= Len(s) /\ Drop(s, Len(s) - Len(suf)) = suf

\* the blocks a backtrack of the engine s discards
Ghosts(s) ==
    Take(s.finishes_lines, Min({s.frozen_blocks_count, Len(s.finishes_lines)}))

RECURSIVE ConfirmedText(_, _)
\* the final segments of the batches log[i], log[i + 1], ... in arrival order
ConfirmedText(log, i) ==
    IF i > Len(log) THEN <<>>
    ELSE Classified(log[i]).final_text_segment \o ConfirmedText(log, i + 1)

\* the engine the last batch drained left, before the animation
LastPost == processed[Len(processed)].post

\* the revealed text of block b is longer than its text
Overshoots(b) == Len(b.displayed_text) > Len(b.text)

\* the interim line and the committed blocks of the engine
AllBlocks == {interim_line} \cup {finishes_lines[i] : i \in 1..Len(finishes_lines)}

\* text holds a sentence terminator followed by whitespace
HasSentenceBreak(text) ==
    \E i \in 1..(Len(text) - 1) :
        IsTerminator(text[i]) /\ IsWhitespace(text[i + 1])

RECURSIVE TextOf(_, _, _, _)
\* the texts, in arrival order, of the tokens from token i on that have the
\* finality is_final and a tag of tags
TextOf(tokens, i, is_final, tags) ==
    IF i > Len(tokens) THEN <<>>
    ELSE (IF tokens[i].is_final = is_final
             /\ tokens[i].translation_status \in tags
          THEN tokens[i].text ELSE <<>>)
         \o TextOf(tokens, i + 1, is_final, tags)

\* text holds the marker of a tag of tags
Marked(text, tags) ==
    \E i \in 1..Len(text) : text[i] \in {MarkerOf(tag) : tag \in tags}

(***************************************************************************)
(* C1  Bounded blocks: in every reachable state the number of committed    *)
(* blocks in finishes_lines is at most max_lines.                          *)
(***************************************************************************)
C1_BoundedBlocks == Len(finishes_lines) <= max_lines

\* a batch was committed into a full collection of two different blocks:
\* a new block arrived, the oldest block left and the count stayed
C1_Witness ==
    \E e \in Entries :
        /\ max_lines = 3
        /\ Len(e.pre.finishes_lines) = 2
        /\ e.pre.finishes_lines[1] # e.pre.finishes_lines[2]
        /\ Len(e.post.finishes_lines) = 2
        /\ e.post.finishes_lines[2] = e.pre.finishes_lines[1]
        /\ e.post.finishes_lines[1] # e.pre.finishes_lines[1]
        /\ finishes_lines = e.post.finishes_lines

(***************************************************************************)
(* C2  Backtrack correctness: when a final segment that is neither a       *)
(* prefix of the frozen history nor prefixed by it has been processed, the *)
(* committed blocks hold nothing of the speculatively frozen text, whether *)
(* the frozen chunk was put in a new block or merged into an existing one. *)
(* Stated for frozen text that occurs once in the committed text and not   *)
(* in the final segment.                                                   *)
(***************************************************************************)
C2_BacktrackCorrectness ==
    \A e \in Entries :
        (/\ FinalOnly(e)
         /\ e.pre.frozen_interim_history # <<>>
         /\ Mismatch(Classified(e).final_text_segment,
                     e.pre.frozen_interim_history)
         /\ Occurrences(CommittedText(e.pre.finishes_lines),
                        e.pre.frozen_interim_history) = 1
         /\ ~Contains(Classified(e).final_text_segment,
                      e.pre.frozen_interim_history))
        => ~Contains(CommittedText(e.post.finishes_lines),
                     e.pre.frozen_interim_history)

(***************************************************************************)
(* C3  A backtrack (final mismatch or interim drift) never removes         *)
(* confirmed history: the text of the blocks it discards is part of the    *)
(* frozen history no final segment has confirmed yet (whitespace aside).   *)
(***************************************************************************)
C3_BacktrackKeepsConfirmed ==
    \A e \in Entries :
        (\/ /\ FinalOnly(e)
            /\ Mismatch(Classified(e).final_text_segment,
                        e.pre.frozen_interim_history)
         \/ /\ InterimOnly(e)
            /\ ~StartsWith(Classified(e).full_interim_text,
                           e.pre.frozen_interim_history))
        => IsSuffix(StripWhitespace(e.pre.frozen_interim_history),
                    StripWhitespace(CommittedText(Ghosts(e.pre))))

(***************************************************************************)
(* C4  Monotonic confirmation: when the batches drained into an engine     *)
(* with no committed text and no frozen history all have final segments    *)
(* that start with the frozen history of the moment, no block was evicted  *)
(* and no speculation is left, the committed blocks' texts from oldest to  *)
(* newest are the final segments in arrival order.                         *)
(***************************************************************************)
C4_MonotonicConfirmation ==
    (/\ processed # <<>>
     /\ event_queue = <<>>
     /\ processed[1].pre.finishes_lines = <<>>
     /\ processed[1].pre.frozen_interim_history = <<>>
     /\ processed[1].pre.frozen_blocks_count = 0
     /\ frozen_interim_history = <<>>
     /\ \A e \in Entries :
            /\ Classified(e).has_final =>
                   StartsWith(Classified(e).final_text_segment,
                              e.pre.frozen_interim_history)
            /\ Len(e.post.finishes_lines) < max_lines - 1)
    => CommittedText(processed[Len(processed)].post.finishes_lines)
           = ConfirmedText(processed, 1)

(***************************************************************************)
(* C5  Idempotent absorption: a batch whose final segment is a prefix of,  *)
(* or equal to, the frozen history leaves the committed collection as it   *)
(* was: no block is created and no block's text is extended.               *)
(***************************************************************************)
C5_IdempotentAbsorption ==
    \A e \in Entries :
        (/\ FinalOnly(e)
         /\ StartsWith(e.pre.frozen_interim_history,
                       Classified(e).final_text_segment))
        => e.post.finishes_lines = e.pre.finishes_lines

\* a final segment shorter than the frozen history was absorbed while a
\* speculative block was committed
C5_Witness ==
    \E e \in Entries :
        /\ FinalOnly(e)
        /\ Classified(e).final_text_segment # <<>>
        /\ StartsWith(e.pre.frozen_interim_history,
                      Classified(e).final_text_segment)
        /\ e.pre.frozen_interim_history # Classified(e).final_text_segment
        /\ e.pre.frozen_blocks_count > 0
        /\ e.pre.finishes_lines # <<>>
        /\ e.post.frozen_interim_history # <<>>
        /\ finishes_lines # <<>>

(***************************************************************************)
(* C6  Reveal monotonicity.  Shared part: after update_animation no block  *)
(* has more text revealed than it has; a committed block never has, not    *)
(* even between a batch and the animation; the interim line has only after *)
(* a revision that shortened its text; update_animation shortens the       *)
(* revealed text only by the snap-down to the full text; and the revealed  *)
(* text of a committed block that stays in the collection never shrinks.   *)
(***************************************************************************)
C6_RevealBounded ==
    /\ hung \/ \A b \in AllBlocks : ~Overshoots(b)
    /\ \A e \in Entries :
           /\ \A i \in 1..Len(e.post.finishes_lines) :
                  ~Overshoots(e.post.finishes_lines[i])
           /\ Overshoots(e.post.interim_line) =>
                  \/ Len(e.post.interim_line.text) < Len(e.pre.interim_line.text)
                  \/ Overshoots(e.pre.interim_line)
           /\ (e.pre.frozen_blocks_count = 0
               /\ Len(e.post.finishes_lines) < max_lines - 1) =>
                  \A k \in 0..(Len(e.pre.finishes_lines) - 1) :
                      Len(e.post.finishes_lines[Len(e.post.finishes_lines) - k]
                              .displayed_text)
                          >= Len(e.pre.finishes_lines[Len(e.pre.finishes_lines) - k]
                                     .displayed_text)
    /\ (processed # <<>> /\ ~hung) =>
           /\ Len(interim_line.displayed_text)
                  < Len(LastPost.interim_line.displayed_text) =>
                  /\ Overshoots(LastPost.interim_line)
                  /\ interim_line.displayed_text = LastPost.interim_line.text
           /\ \A i \in 1..Len(finishes_lines) :
                  Len(finishes_lines[i].displayed_text)
                      >= Len(LastPost.finishes_lines[i].displayed_text)

C7_ScenarioDrained ==
    /\ service.finalized
    /\ event_queue = <<>>
    /\ Len(service.text) <= max_chars_in_block
    /\ IsTerminator(service.text[Len(service.text)])

\* what the scenario is claimed to leave
C7_ScenarioResult ==
    /\ Len(finishes_lines) = 1
    /\ finishes_lines[1].text = service.text
    /\ interim_line.text = <<>>
    /\ frozen_interim_history = <<>>
    /\ frozen_blocks_count = 0

\* C7 as claimed: once the scenario is drained the engine holds exactly one
\* block with the text T and nothing provisional, on every engine
C7_Scenario == C7_ScenarioDrained => C7_ScenarioResult

\* C7 as amended: the engine keeps committed blocks (max_lines >= 2) and no
\* interim text showed a sentence terminator followed by whitespace
C7_ScenarioAmended ==
    (/\ C7_ScenarioDrained
     /\ max_lines >= 2
     /\ ~HasSentenceBreak(Take(service.text, service.sent)))
    => C7_ScenarioResult

\* two interim batches and the final batch were drained into one block
C7_Witness ==
    /\ C7_ScenarioDrained
    /\ max_lines >= 2
    /\ n_batches = 3
    /\ service.sent > 1
    /\ ~HasSentenceBreak(Take(service.text, service.sent))
    /\ C7_ScenarioResult

(***************************************************************************)
(* C8  Stability promotion: an interim text that has come from a batch and *)
(* has not changed for longer than the stability timeout does not survive  *)
(* a tick: the tick freezes it, commits the part before the last           *)
(* whitespace boundary and times the remainder afresh.  So after a tick no *)
(* interim text is older than the timeout.  (The modes of the application  *)
(* time the interim text; process_transcription_event does not.)           *)
(***************************************************************************)
C8_StabilityPromotion ==
    (/\ mode # Legacy
     /\ ~hung
     /\ interim_line.text # <<>>
     /\ interim_line.text # DefaultText)
    => now - last_interim_update <= StabilityTimeout

(***************************************************************************)
(* C9  Translate mode filtering: in translate mode the final segment and   *)
(* the interim text of a batch are the texts of its tokens tagged as       *)
(* translation, and no text of a token tagged original or not tagged       *)
(* reaches a committed block, the interim line or the frozen history.      *)
(***************************************************************************)
C9_TranslateFiltering ==
    mode = Translate =>
        /\ \A e \in Entries :
               /\ Classified(e).final_text_segment
                      = TextOf(e.response, 1, TRUE, {Translation})
               /\ Classified(e).full_interim_text
                      = TextOf(e.response, 1, FALSE, {Translation})
        /\ \A b \in AllBlocks :
               /\ ~Marked(b.text, {Original, NoStatus})
               /\ ~Marked(b.displayed_text, {Original, NoStatus})
        /\ ~Marked(frozen_interim_history, {Original, NoStatus})

\* a batch of a final original token and a final translated token was
\* processed in translate mode and the translated text alone was committed
C9_Witness ==
    \E e \in Entries :
        /\ mode = Translate
        /\ Len(e.response) = 2
        /\ e.response[1].translation_status = Original
        /\ e.response[1].is_final
        /\ e.response[2].translation_status = Translation
        /\ e.pre.finishes_lines = <<>>
        /\ Len(finishes_lines) = 1
        /\ finishes_lines[1].text = e.response[2].text

(***************************************************************************)
(* C10  Transcribe-only mode filtering: in transcribe-only mode the final  *)
(* segment of a batch is the text of its final tokens that are not tagged  *)
(* or tagged original, its interim text the text of its interim tokens     *)
(* that are not tagged or tagged original; tokens tagged as translation    *)
(* contribute no text.                                                     *)
(***************************************************************************)
C10_TranscribeFiltering ==
    mode = Transcribe =>
        \A e \in Entries :
            /\ Classified(e).final_text_segment
                   = TextOf(e.response, 1, TRUE, {NoStatus, Original})
            /\ Classified(e).full_interim_text
                   = TextOf(e.response, 1, FALSE, {NoStatus, Original})

(***************************************************************************)
(* C11  Duplicate final rejection: in both modes of the application a      *)
(* final token whose end-time offset is present and does not exceed the    *)
(* highest end-time offset of the final tokens that earlier batches        *)
(* confirmed contributes no text to the final segment of its batch; so a   *)
(* final token the service sends again is not committed a second time.     *)
(***************************************************************************)
C11_DuplicateFinalRejection ==
    mode # Legacy =>
        \A j \in 1..Len(processed) :
            \A k \in 1..Len(processed[j].response) :
                (/\ processed[j].response[k].is_final
                 /\ \E x \in processed[j].response[k].end_ms :
                        x <= ConfirmedBefore(mode, confirmed_ms, processed, j))
                => ~Taken(mode, processed[j].response[k],
                          processed[j].pre.last_final_ms)

(***************************************************************************)
(* C12  The highest confirmed end-time offset, last_final_ms, never gets   *)
(* lower in either mode of the application: no batch lowers it, whether    *)
(* its final tokens carry higher, smaller or no end-time offsets, and no   *)
(* step of the engine does.                                                *)
(***************************************************************************)
\* no batch of the last update_animation lowered last_final_ms
C12_BatchKeepsOffset ==
    mode # Legacy =>
        \A e \in Entries : e.post.last_final_ms >= e.pre.last_final_ms

\* C12: last_final_ms is non-decreasing over every batch processed and over
\* every step of the engine
C12_MonotonicOffset ==
    /\ []C12_BatchKeepsOffset
    /\ [][mode # Legacy => last_final_ms' >= last_final_ms]_vars

\* after an offset of 2 was recorded, a batch whose final token carries the
\* smaller offset 1 and a batch whose final token carries none were
\* processed, and the offset is still 2
C12_Witness ==
    /\ mode # Legacy
    /\ last_final_ms = 2
    /\ Len(processed) = 2
    /\ processed[1].pre.last_final_ms = 2
    /\ processed[1].response[1].is_final
    /\ processed[1].response[1].end_ms = {1}
    /\ processed[1].response[1].translation_status # NoStatus
    /\ processed[2].response[1].is_final
    /\ processed[2].response[1].end_ms = {}
    /\ processed[2].response[1].translation_status # NoStatus

\* the places of block b in the sequence seq
Places(seq, b) == {i \in 1..Len(seq) : seq[i] = b}

\* the blocks of the sequence seq
BlocksOf(seq) == {seq[i] : i \in 1..Len(seq)}

\* the committed blocks the batch of entry e created
NewBlocks(e) == BlocksOf(e.post.finishes_lines) \ BlocksOf(e.pre.finishes_lines)

\* the batch of entry e added one block to a collection that had blocks, and
\* changed or removed none of them: the block it added is the newest, and
\* each of the others is as old as it was
Grew(e) ==
    /\ e.pre.finishes_lines # <<>>
    /\ Len(e.post.finishes_lines) = Len(e.pre.finishes_lines) + 1
    /\ BlocksOf(e.pre.finishes_lines) \subseteq BlocksOf(e.post.finishes_lines)
    /\ Cardinality(NewBlocks(e)) = 1
    /\ e.post.interim_line \notin BlocksOf(e.post.finishes_lines)

\* in the sequence seq every block of older comes before every block of
\* newer
Before(seq, older, newer) ==
    \A a \in older, b \in newer :
        \A i \in Places(seq, a), j \in Places(seq, b) : i < j

(***************************************************************************)
(* C13  The sequence iter() yields: the committed blocks and the interim   *)
(* line, each once.  As claimed, the committed blocks come from the oldest *)
(* to the newest and the interim line is the last element.                 *)
(***************************************************************************)
C13_IterOldestFirst ==
    \A e \in Entries :
        Grew(e) =>
            /\ Len(Iter(e.post)) = Len(e.post.finishes_lines) + 1
            /\ Iter(e.post)[Len(Iter(e.post))] = e.post.interim_line
            /\ Before(Iter(e.post), BlocksOf(e.pre.finishes_lines),
                      NewBlocks(e))

\* C13 as amended: iter() yields the interim line first and then the
\* committed blocks from the newest to the oldest
C13_IterNewestFirst ==
    \A e \in Entries :
        Grew(e) =>
            /\ Len(Iter(e.post)) = Len(e.post.finishes_lines) + 1
            /\ Iter(e.post)[1] = e.post.interim_line
            /\ Before(Iter(e.post), NewBlocks(e),
                      BlocksOf(e.pre.finishes_lines))

\* a batch added a second block to the collection, and the engine shows an
\* interim text
C13_Witness ==
    \E e \in Entries :
        /\ Grew(e)
        /\ Len(e.pre.finishes_lines) = 1
        /\ e.post.interim_line.text # <<>>
        /\ finishes_lines = e.post.finishes_lines

\* what a reader of iter() sees of the engine s: the revealed texts of the
\* blocks it yields, in order, blocks with nothing revealed left out
Visible(s) ==
    SelectSeq([i \in 1..Len(Iter(s)) |-> Iter(s)[i].displayed_text],
              LAMBDA t : t # <<>>)

(***************************************************************************)
(* C14  update_animation returns true whenever the call changed what is    *)
(* visible through iter(): the revealed text of a committed block or of    *)
(* the interim line, or the blocks displayed, the changes made by the      *)
(* batches the call itself drained included.                               *)
(***************************************************************************)
C14_TickReportsChanges ==
    [][(now' # now /\ ~hung' /\ Visible(Engine)' # Visible(Engine))
           => request_repaint']_vars

\* the engine has just been constructed: nothing was delivered, no frame ran
Fresh == lifecycle = Running /\ now = 0 /\ n_batches = 0

\* what a call of new has left: nothing when it panicked, which it does for
\* zero only, and else a running engine, which is empty while it is fresh
C15_Built ==
    /\ (lifecycle = Panicked) =>
           /\ max_lines = 0
           /\ finishes_lines = Absent
           /\ event_queue = Absent
    /\ (lifecycle = Running) => max_lines >= 1
    /\ Fresh =>
           /\ finishes_lines = <<>>
           /\ frozen_interim_history = <<>>
           /\ frozen_blocks_count = 0
           /\ event_queue = <<>>

(***************************************************************************)
(* C15  Construction with a maximum block count of zero fails at once, by  *)
(* the assertion of new, and builds no engine; construction with a maximum *)
(* block count of one or more succeeds and yields an engine with no        *)
(* committed block, an empty frozen history, a speculative block count of  *)
(* zero and an empty pending queue.                                        *)
(***************************************************************************)
C15_Construction ==
    /\ []C15_Built
    /\ [][(lifecycle = Unbuilt) =>
              /\ lifecycle' = IF max_lines = 0 THEN Panicked ELSE Running
              /\ max_lines' = max_lines]_vars

\* new was called with a maximum block count of zero and panicked
C15_Witness == lifecycle = Panicked /\ max_lines = 0

\* the batches of the entries of seq (queue entries or log entries), in order
Responses(seq) == [i \in 1..Len(seq) |-> seq[i].response]

\* an enqueue leaves every entry that was pending before the last one where
\* it was, and puts a new entry behind them
AppendsBehind ==
    /\ Len(event_queue') \in {Len(event_queue), Len(event_queue) + 1}
    /\ \A i \in 1..(Len(event_queue) - 1) : event_queue'[i] = event_queue[i]
    /\ (Len(event_queue') = Len(event_queue) + 1) =>
           \A i \in 1..Len(event_queue) : event_queue'[i] = event_queue[i]

\* an update_animation processes the pending entries from the front of the
\* queue on, one after the other: each batch meets the engine the batch
\* before it left
DrainsFromFront ==
    /\ Responses(processed') \o Responses(event_queue')
           = Responses(event_queue)
    /\ (processed' # <<>>) => processed'[1].pre = Engine
    /\ \A j \in 2..Len(processed') :
           processed'[j].pre = processed'[j - 1].post

(***************************************************************************)
(* C16  Strict FIFO: the pending batches are processed in the order their  *)
(* queue entries were appended in.  New entries are appended behind the    *)
(* pending ones, the entries are processed from the front, and no entry is *)
(* processed while an earlier one is pending.                              *)
(***************************************************************************)
C16_StrictFifo ==
    [][/\ (n_batches' # n_batches) => AppendsBehind
       /\ (now' # now) => DrainsFromFront]_vars

\* two different batches were pending, and one update_animation processed
\* them, the final one that had arrived first before the interim one
C16_Witness ==
    /\ Len(processed) = 2
    /\ processed[1].response # processed[2].response
    /\ ~IsPurelyInterim(processed[1].response)
    /\ IsPurelyInterim(processed[2].response)
    /\ processed[2].pre = processed[1].post
    /\ processed[2].post # processed[2].pre
    /\ event_queue = <<>>

\* the batches of seq that contain a final token, in order
WithFinal(seq) == SelectSeq(seq, LAMBDA r : ~IsPurelyInterim(r))

\* the batch an enqueue has just delivered is the content of the last entry
Arrived == event_queue'[Len(event_queue')].response

\* an enqueue gives a batch with a final token an entry of its own behind
\* the pending ones, and no enqueue replaces or drops a pending entry whose
\* batch has a final token
KeepsFinalEntries ==
    /\ ~IsPurelyInterim(Arrived) =>
           /\ Len(event_queue') = Len(event_queue) + 1
           /\ SubSeq(event_queue', 1, Len(event_queue)) = event_queue
    /\ \A i \in 1..Len(event_queue) :
           ~IsPurelyInterim(event_queue[i].response) =>
               event_queue'[i] = event_queue[i]

\* an update_animation processes each pending batch with a final token once,
\* in the order they were pending in, or leaves it pending
ProcessesFinalOnce ==
    WithFinal(Responses(processed')) \o WithFinal(Responses(event_queue'))
        = WithFinal(Responses(event_queue))

(***************************************************************************)
(* C17  Collapsing never touches final content: a batch with a final token *)
(* gets a queue entry of its own when it is enqueued, no later enqueue     *)
(* replaces or drops that entry, and it is processed exactly once, in      *)
(* arrival order among the batches with a final token.                     *)
(***************************************************************************)
C17_FinalNeverCollapsed ==
    [][/\ (n_batches' # n_batches) => KeepsFinalEntries
       /\ (now' # now) => ProcessesFinalOnce]_vars

\* a batch with a final token and two interim batches of its speaker were
\* delivered, the interim batches collapsed into one entry behind it, and
\* the first update_animation processed the two entries
C17_Witness ==
    /\ now = 1
    /\ n_batches = 3
    /\ Len(processed) = 2
    /\ ~IsPurelyInterim(processed[1].response)
    /\ IsPurelyInterim(processed[2].response)
    /\ FirstSpeaker(processed[1].response) = FirstSpeaker(processed[2].response)
    /\ processed[1].post.finishes_lines # <<>>
    /\ event_queue = <<>>

\* the batch an enqueue delivers meets the conditions of the collapse: it
\* has no final token, an entry is pending, the batch pending last has no
\* final token, and the two are of the same speaker (their first tokens are)
Collapsible ==
    /\ IsPurelyInterim(Arrived)
    /\ event_queue # <<>>
    /\ IsPurelyInterim(event_queue[Len(event_queue)].response)
    /\ FirstSpeaker(Arrived)
           = FirstSpeaker(event_queue[Len(event_queue)].response)

(***************************************************************************)
(* C18  Smart-buffer collapse: the enqueue of a purely interim batch, when *)
(* the batch pending last is purely interim too and of the same speaker,   *)
(* replaces the content of that entry in place: the queue keeps its length *)
(* and the entry its enqueue timestamp.  In every other case the batch is  *)
(* appended as a new last entry and the queue grows by exactly one.        *)
(***************************************************************************)
C18_SmartBufferCollapse ==
    [][(n_batches' # n_batches) =>
          IF Collapsible
          THEN /\ Len(event_queue') = Len(event_queue)
               /\ event_queue'[Len(event_queue)].timestamp
                      = event_queue[Len(event_queue)].timestamp
               /\ \A i \in 1..(Len(event_queue) - 1) :
                      event_queue'[i] = event_queue[i]
          ELSE /\ Len(event_queue') = Len(event_queue) + 1
               /\ SubSeq(event_queue', 1, Len(event_queue)) = event_queue
               /\ event_queue'[Len(event_queue')].timestamp = InstantNow]_vars

\* two purely interim batches of one speaker were delivered to an engine
\* with nothing pending: one entry is pending, with the timestamp of the
\* first and the content of the second
C18_Witness ==
    /\ n_batches = 2
    /\ now = 0
    /\ Len(event_queue) = 1
    /\ event_queue[1].timestamp = 0
    /\ IsPurelyInterim(event_queue[1].response)

\* what is compared of an engine s: the texts of the committed blocks, the
\* text of the interim line, the frozen history, the speculative block count
Observed(s) ==
    [blocks |-> [i \in 1..Len(s.finishes_lines) |-> s.finishes_lines[i].text],
     interim |-> s.interim_line.text,
     history |-> s.frozen_interim_history,
     count |-> s.frozen_blocks_count]

\* the pairs of purely interim batches of one speaker the service may
\* deliver one after the other
InterimPairs ==
    {p \in Batches(mode, service) \X Batches(mode, service) :
        /\ IsPurelyInterim(p[1])
        /\ IsPurelyInterim(p[2])
        /\ FirstSpeaker(p[1]) = FirstSpeaker(p[2])}

(***************************************************************************)
(* C19  Collapsing is equivalent to processing both batches: in every      *)
(* reachable state of the engine, for every two purely interim batches I1  *)
(* and I2 of one speaker, processing I2 alone (as after a collapse) leaves *)
(* the same committed texts, interim text, frozen history and speculative  *)
(* block count as processing I1 and then I2.                               *)
(***************************************************************************)
C19_CollapseEquivalence ==
    (lifecycle = Running /\ ~hung) =>
        \A p \in InterimPairs :
            Observed(Process(mode, Engine, p[2], now + 1))
                = Observed(Process(mode,
                                   Process(mode, Engine, p[1], now + 1),
                                   p[2], now + 1))

(***************************************************************************)
(* C20  Bounded work per call: push_final terminates for every text and    *)
(* every block-length limit, each iteration of its loop committing a       *)
(* non-empty chunk and leaving a strictly shorter text; so the processing  *)
(* of a batch and update_animation terminate: no call of the engine enters *)
(* a loop it never leaves.                                                 *)
(***************************************************************************)
C20_PushFinalTerminates == (lifecycle = Running) => ~hung

\* the part of the final segment of entry e beyond the frozen history
Suffix(e) ==
    Drop(Classified(e).final_text_segment, Len(e.pre.frozen_interim_history))

\* the committed blocks a call of push_final with the text and the speaker
\* given leaves of the blocks lines, in the engine of entry e
CommitOf(e, lines, speaker, text) ==
    PushFinalLoop(lines, speaker, text, mode = Legacy,
                  e.pre.max_chars_in_block, e.pre.max_lines, 0).lines

\* the blocks a call of push_final with the text given adds to the blocks
\* lines, in the engine of entry e
AddedBy(e, lines, speaker, text) ==
    PushFinalLoop(lines, speaker, text, mode = Legacy,
                  e.pre.max_chars_in_block, e.pre.max_lines, 0).added

\* committing the suffix of entry e evicts no block: the blocks never
\* exceed the capacity of max_lines - 1
NoEviction(e) ==
    Len(e.pre.finishes_lines)
        + AddedBy(e, e.pre.finishes_lines, Classified(e).final_speaker,
                  Suffix(e))
        <= e.pre.max_lines - 1

(***************************************************************************)
(* C21  Extension case: a final segment that starts with the frozen        *)
(* history, or equals it, has exactly its part beyond the history passed   *)
(* to push_final, nothing else is committed, and the frozen history is     *)
(* empty and the speculative block count zero afterwards.  The case comes  *)
(* before absorption and mismatch: a final segment equal to the history    *)
(* resets the count.                                                       *)
(***************************************************************************)
C21_ExtensionCase ==
    \A e \in Entries :
        (/\ FinalOnly(e)
         /\ ~e.post.hung
         /\ StartsWith(Classified(e).final_text_segment,
                       e.pre.frozen_interim_history))
        => /\ e.post.finishes_lines
                  = CommitOf(e, e.pre.finishes_lines,
                             Classified(e).final_speaker, Suffix(e))
           /\ NoEviction(e) =>
                  StripWhitespace(CommittedText(e.post.finishes_lines))
                      = StripWhitespace(CommittedText(e.pre.finishes_lines)
                                            \o Suffix(e))
           /\ e.post.frozen_interim_history = <<>>
           /\ e.post.frozen_blocks_count = 0

\* a final segment longer than the frozen history it starts with was
\* processed while a speculative block was committed: its suffix was
\* committed and the speculation confirmed
C21_Witness ==
    \E e \in Entries :
        /\ FinalOnly(e)
        /\ e.pre.frozen_interim_history # <<>>
        /\ e.pre.frozen_blocks_count > 0
        /\ StartsWith(Classified(e).final_text_segment,
                      e.pre.frozen_interim_history)
        /\ Suffix(e) # <<>>
        /\ NoEviction(e)
        /\ e.post.frozen_blocks_count = 0
        /\ e.post.finishes_lines # e.pre.finishes_lines
        /\ finishes_lines # <<>>

\* the batch of entry e holds only final text, which the frozen history
\* covers without being covered by it
Absorbed(e) ==
    /\ FinalOnly(e)
    /\ StartsWith(e.pre.frozen_interim_history,
                  Classified(e).final_text_segment)
    /\ ~StartsWith(Classified(e).final_text_segment,
                   e.pre.frozen_interim_history)

(***************************************************************************)
(* C22  Absorption case: when the frozen history starts with the final     *)
(* segment and the final segment does not start with the frozen history,   *)
(* the frozen history after the step is the old history without its first  *)
(* len(final segment) characters, and the speculative block count is       *)
(* unchanged.                                                              *)
(***************************************************************************)
C22_AbsorptionCase ==
    \A e \in Entries :
        Absorbed(e)
        => /\ e.post.frozen_interim_history
                  = Drop(e.pre.frozen_interim_history,
                         Len(Classified(e).final_text_segment))
           /\ Len(e.post.frozen_interim_history)
                  = Len(e.pre.frozen_interim_history)
                        - Len(Classified(e).final_text_segment)
           /\ e.post.frozen_blocks_count = e.pre.frozen_blocks_count

\* a non-empty final segment shorter than the frozen history was absorbed
\* while a speculative block was committed: part of the history is left
\* and the block is still counted
C22_Witness ==
    \E e \in Entries :
        /\ Absorbed(e)
        /\ Classified(e).final_text_segment # <<>>
        /\ e.pre.frozen_blocks_count > 0
        /\ e.post.frozen_interim_history # <<>>
        /\ e.post.frozen_blocks_count > 0

\* the interim text of the batch of entry e does not start with the frozen
\* history
Drifted(e) ==
    ~StartsWith(Classified(e).full_interim_text, e.pre.frozen_interim_history)

\* the committed blocks, the history and the count the drift check leaves
\* for the freeze decision on the batch of entry e
SyncedLines(e) ==
    IF Drifted(e)
    THEN Drop(e.pre.finishes_lines,
              Min({e.pre.frozen_blocks_count, Len(e.pre.finishes_lines)}))
    ELSE e.pre.finishes_lines

SyncedHistory(e) == IF Drifted(e) THEN <<>> ELSE e.pre.frozen_interim_history

SyncedCount(e) == IF Drifted(e) THEN 0 ELSE e.pre.frozen_blocks_count

\* the text the batch of entry e added to the frozen history
Frozen(e) == Drop(e.post.frozen_interim_history, Len(SyncedHistory(e)))

(***************************************************************************)
(* C23  Interim drift: when a processed batch has non-empty interim text   *)
(* that does not start with the frozen history, the speculative blocks are *)
(* discarded from the newest end of the committed blocks and the history   *)
(* and the count are reset before any freeze decision; when the interim    *)
(* text does start with the history, blocks, history and count are left    *)
(* alone by the check.  In both cases only the interim text after the      *)
(* history is frozen or displayed.                                         *)
(***************************************************************************)
C23_InterimDrift ==
    \A e \in Entries :
        (InterimOnly(e) /\ ~e.post.hung)
        => /\ StartsWith(e.post.frozen_interim_history, SyncedHistory(e))
           /\ e.post.frozen_interim_history \o e.post.interim_line.text
                  = Classified(e).full_interim_text
           /\ e.post.finishes_lines
                  = CommitOf(e, SyncedLines(e),
                             Classified(e).interim_speaker, Frozen(e))
           /\ e.post.frozen_blocks_count
                  = SyncedCount(e)
                        + AddedBy(e, SyncedLines(e),
                                  Classified(e).interim_speaker, Frozen(e))
           /\ Frozen(e) = <<>> =>
                  /\ e.post.finishes_lines = SyncedLines(e)
                  /\ e.post.frozen_interim_history = SyncedHistory(e)
                  /\ e.post.frozen_blocks_count = SyncedCount(e)

\* an interim text that left the frozen history behind was processed while
\* a speculative block was committed: the block is gone and nothing of the
\* old history is left
C23_Witness ==
    \E e \in Entries :
        /\ InterimOnly(e)
        /\ Drifted(e)
        /\ e.pre.frozen_blocks_count > 0
        /\ Len(e.pre.finishes_lines) > e.pre.frozen_blocks_count
        /\ Frozen(e) = <<>>
        /\ Len(e.post.finishes_lines) < Len(e.pre.finishes_lines)
        /\ e.post.frozen_blocks_count = 0
        /\ e.post.interim_line.text = Classified(e).full_interim_text

\* the batch of entry e is a final text that push_final received whole: no
\* interim text, nothing frozen before it, and the call returned
Direct(e) ==
    /\ FinalOnly(e)
    /\ e.pre.frozen_interim_history = <<>>
    /\ ~e.post.hung

\* the text push_final received for the batch of entry e
CommitText(e) == Classified(e).final_text_segment

\* push_final handled the text of entry e as one chunk: it is not empty
\* and not longer than the block limit and the slack
OneChunk(e) ==
    /\ CommitText(e) # <<>>
    /\ Len(CommitText(e)) <= e.pre.max_chars_in_block + OrphanSlack

\* the text, trimmed of trailing whitespace, ends with a terminator
EndsSentence(text) ==
    /\ TrimEnd(text) # <<>>
    /\ IsTerminator(TrimEnd(text)[Len(TrimEnd(text))])

\* the newest committed block before the batch of entry e is a finished
\* sentence
AfterSentence(e) ==
    /\ e.pre.finishes_lines # <<>>
    /\ EndsSentence(e.pre.finishes_lines[1].text)

(***************************************************************************)
(* C24  A finished sentence never gets more text appended: whenever        *)
(* push_final handles a chunk while the text of the newest committed       *)
(* block, trimmed of trailing whitespace, ends with '.', '?' or '!', the   *)
(* chunk is placed in a new block and the text of that newest block is     *)
(* left unchanged, for every chunk and every block length.                 *)
(***************************************************************************)
C24_SentenceNeverAppended ==
    \A e \in Entries :
        (Direct(e) /\ OneChunk(e) /\ AfterSentence(e))
        => /\ e.post.finishes_lines # <<>>
           /\ e.post.finishes_lines[1].text = CommitText(e)
           /\ Len(e.post.finishes_lines) > 1 =>
                  e.post.finishes_lines[2].text
                      = e.pre.finishes_lines[1].text

(***************************************************************************)
(* C25  Sentence splitting in push_final: when the text passed to          *)
(* push_final contains a sentence terminator ('.', '?', '!') immediately   *)
(* followed by whitespace, the chunk up to and including that terminator   *)
(* is committed as one unit and the remainder handled in a later loop      *)
(* iteration, so that text of two sentences of one call never ends up in   *)
(* the same newly created block.  Stated for calls on an engine without    *)
(* committed blocks, where every block left is newly created.              *)
(***************************************************************************)
C25_SentenceSplitInCommit ==
    \A e \in Entries :
        (/\ Direct(e)
         /\ e.pre.finishes_lines = <<>>
         /\ HasSentenceBreak(CommitText(e)))
        => \A b \in BlocksOf(e.post.finishes_lines) :
               ~HasSentenceBreak(b.text)

\* push_final merged the text of entry e, one chunk, into the newest block
Merged(e) ==
    /\ Direct(e)
    /\ OneChunk(e)
    /\ e.pre.finishes_lines # <<>>
    /\ ~ShouldStartNew(e.pre.finishes_lines, CommitText(e),
                       e.pre.max_chars_in_block)

\* the text a block with the text old is specified to have after the
\* chunk was merged into it
GluedText(old, chunk) ==
    IF Len(chunk) <= 2 THEN old \o chunk
    ELSE IF ~EndsWithWhitespace(old) /\ ~StartsWithWhitespace(chunk)
    THEN old \o <<" ">> \o chunk
    ELSE old \o chunk

(***************************************************************************)
(* C26  Merge separator: when push_final merges a chunk into the newest    *)
(* block, the new text of the block is the old text followed by the chunk, *)
(* with exactly one space between them if and only if the old text does    *)
(* not end with whitespace and the chunk does not start with whitespace,   *)
(* except that a chunk of two characters or fewer is glued directly with   *)
(* no separator.                                                           *)
(***************************************************************************)
C26_MergeSeparator ==
    \A e \in Entries :
        Merged(e)
        => /\ e.post.finishes_lines # <<>>
           /\ e.post.finishes_lines[1].text
                  = GluedText(e.pre.finishes_lines[1].text, CommitText(e))

\* the block length the block limit, the slack for orphans and one
\* separator allow
BlockBound(max_chars) == max_chars + OrphanSlack + 1

(***************************************************************************)
(* C27  Maximum block length: with a fixed max_chars_in_block, after any   *)
(* sequence of calls of push_final the text of every committed block is    *)
(* not longer than the limit plus the 15 characters of slack and one       *)
(* separator; a block does not grow without bound when the input has no    *)
(* sentence punctuation.                                                   *)
(***************************************************************************)
C27_BlockLengthBounded ==
    (lifecycle = Running /\ ~hung)
    => \A i \in 1..Len(finishes_lines) :
           Len(finishes_lines[i].text) <= BlockBound(max_chars_in_block)

\* the batch of entry e, interim text only, had a chunk frozen
Froze(e) == InterimOnly(e) /\ ~e.post.hung /\ Frozen(e) # <<>>

\* what the freeze of entry e added to the speculative block count: the
\* value push_final returned
Returned(e) == e.post.frozen_blocks_count - SyncedCount(e)

\* fewer blocks than the engine keeps are left after the batch of entry e:
\* no call of push_final evicted one
BelowCapacity(e) == Len(e.post.finishes_lines) < e.pre.max_lines - 1

\* push_final merged the chunk frozen from the batch of entry e
FreezeMerged(e) ==
    /\ Froze(e)
    /\ Len(Frozen(e)) <= e.pre.max_chars_in_block + OrphanSlack
    /\ SyncedLines(e) # <<>>
    /\ ~ShouldStartNew(SyncedLines(e), Frozen(e), e.pre.max_chars_in_block)

(***************************************************************************)
(* C28  push_final returns exactly the number of new blocks it pushed      *)
(* onto the committed blocks during the call: a merge into an existing     *)
(* block counts zero and an empty text returns zero.  After a speculative  *)
(* freeze the speculative block count has grown by exactly that return     *)
(* value.                                                                  *)
(***************************************************************************)
C28_ReturnsBlocksAdded ==
    \A e \in Entries :
        /\ AddedBy(e, e.pre.finishes_lines, NoSpeaker, <<>>) = 0
        /\ Froze(e) =>
               /\ Returned(e)
                      = AddedBy(e, SyncedLines(e),
                                Classified(e).interim_speaker, Frozen(e))
               /\ BelowCapacity(e) =>
                      Returned(e)
                          = Len(e.post.finishes_lines) - Len(SyncedLines(e))
               /\ FreezeMerged(e) => Returned(e) = 0

\* a chunk was frozen into a new block where no block was, and the
\* speculative block count grew by one
C28_Witness ==
    \E e \in Entries :
        /\ Froze(e)
        /\ BelowCapacity(e)
        /\ SyncedLines(e) = <<>>
        /\ Len(e.post.finishes_lines) = 1
        /\ Returned(e) = 1
        /\ frozen_blocks_count = 1

\* push_final created a block for the text of entry e, one chunk
Created(e) ==
    /\ Direct(e)
    /\ OneChunk(e)
    /\ ShouldStartNew(e.pre.finishes_lines, CommitText(e),
                      e.pre.max_chars_in_block)

\* one more block brings the committed blocks of entry e to max_lines
AtLimit(e) == Len(e.pre.finishes_lines) + 1 > e.pre.max_lines - 1

\* the committed blocks without the oldest
WithoutOldest(lines) == Take(lines, Len(lines) - 1)

\* what entry e must show of an eviction that removes the oldest block and
\* no other: the new block in front of the old ones, the oldest of them
\* gone if the limit was reached; after a merge, the same blocks
EvictsOldest(e) ==
    /\ Created(e) =>
           /\ e.post.finishes_lines # <<>>
           /\ e.post.finishes_lines[1].text = CommitText(e)
           /\ Drop(e.post.finishes_lines, 1)
                  = IF AtLimit(e) THEN WithoutOldest(e.pre.finishes_lines)
                    ELSE e.pre.finishes_lines
    /\ Merged(e) =>
           /\ Len(e.post.finishes_lines) = Len(e.pre.finishes_lines)
           /\ Drop(e.post.finishes_lines, 1) = Drop(e.pre.finishes_lines, 1)
           /\ e.post.finishes_lines[1].text
                  = MergedText(e.pre.finishes_lines[1].text, CommitText(e))

(***************************************************************************)
(* C29  Eviction is oldest-first, as claimed for every engine: whenever    *)
(* creating a block brings the committed blocks to their limit, exactly    *)
(* one block, the oldest, is removed; every other block keeps its text and *)
(* its place in the order, and the block just created or merged into is    *)
(* never removed.                                                          *)
(***************************************************************************)
C29_EvictionOldestFirst == \A e \in Entries : EvictsOldest(e)

(***************************************************************************)
(* C29, amended  The same for engines with max_lines of at least 2, which  *)
(* keep at least one committed block.                                      *)
(***************************************************************************)
C29_EvictionOldestFirstOfSeveral ==
    \A e \in Entries : e.pre.max_lines >= 2 => EvictsOldest(e)

\* a block was created where the engine kept as many blocks as it may,
\* two of them: the older one is gone, the newer one is now the oldest
C29_Witness ==
    \E e \in Entries :
        /\ Created(e)
        /\ AtLimit(e)
        /\ Len(e.pre.finishes_lines) = 2
        /\ e.pre.finishes_lines[1] # e.pre.finishes_lines[2]
        /\ Len(e.post.finishes_lines) = 2
        /\ e.post.finishes_lines[2] = e.pre.finishes_lines[1]
        /\ e.post.finishes_lines[1].text = CommitText(e)

\* the speaker values of a token
Speakers == {"A", "B", NoSpeaker}

\* the texts of the blocks, newest first
TextsOf(lines) == [i \in 1..Len(lines) |-> lines[i].text]

(***************************************************************************)
(* C30  A speaker change is not a trigger for a new block: the choice of   *)
(* push_final between merging and a new block is the same for every        *)
(* speaker of the incoming chunk, and merging a chunk of another speaker   *)
(* leaves the speaker label of the existing block unchanged.               *)
(***************************************************************************)
C30_SpeakerNoTrigger ==
    \A e \in Entries :
        /\ Direct(e) =>
               \A sp \in Speakers :
                   TextsOf(CommitOf(e, e.pre.finishes_lines, sp,
                                    CommitText(e)))
                       = TextsOf(e.post.finishes_lines)
        /\ Merged(e) =>
               /\ Len(e.post.finishes_lines) = Len(e.pre.finishes_lines)
               /\ e.post.finishes_lines[1].text
                      = MergedText(e.pre.finishes_lines[1].text,
                                   CommitText(e))
               /\ e.post.finishes_lines[1].speaker
                      = e.pre.finishes_lines[1].speaker

\* a chunk of one speaker was merged into the block of another, which
\* kept its label
C30_Witness ==
    \E e \in Entries :
        /\ Merged(e)
        /\ Classified(e).final_speaker # e.pre.finishes_lines[1].speaker
        /\ e.post.finishes_lines[1].text # e.pre.finishes_lines[1].text
        /\ e.post.finishes_lines[1].speaker = e.pre.finishes_lines[1].speaker
        /\ finishes_lines # <<>>
        /\ finishes_lines[1].speaker # Classified(e).final_speaker

\* the reveal step specified for the block b, with result r of
\* update_animation: nothing when all is revealed, the full text when more
\* is revealed than there is, one more character when the step is due
RevealStep(b, due, r) ==
    IF ByteLen(b.displayed_text) = ByteLen(b.text)
    THEN r = <<b, FALSE>>
    ELSE IF ByteLen(b.displayed_text) > ByteLen(b.text)
    THEN r = <<[b EXCEPT !.displayed_text = b.text], TRUE>>
    ELSE IF due
    THEN /\ Len(r[1].displayed_text) = Len(b.displayed_text) + 1
         /\ Take(r[1].displayed_text, Len(b.displayed_text))
                = b.displayed_text
         /\ Len(b.displayed_text) < Len(b.text)
         /\ r[1].displayed_text[Len(b.displayed_text) + 1]
                = b.text[Len(b.displayed_text) + 1]
         /\ r[1].text = b.text
         /\ r[2] = TRUE
    ELSE r = <<b, FALSE>>

(***************************************************************************)
(* C31  Reveal step: AudioSubtitle::update_animation of a block does       *)
(* nothing and returns false when the revealed length equals the full      *)
(* length; sets the revealed text to the full text and returns true when   *)
(* the revealed length exceeds the full length; otherwise, when force is   *)
(* set or the interval has elapsed, it appends exactly the next character  *)
(* of the full text to the revealed text and returns true, and else        *)
(* changes nothing and returns false.  Lengths are String::len, as in the  *)
(* guards of the code.                                                     *)
(***************************************************************************)
C31_RevealStep ==
    (lifecycle = Running /\ ~hung)
    => \A b \in AllBlocks : \A due \in BOOLEAN :
           RevealStep(b, due, SubtitleUpdateAnimation(b, due))

\* the block has text that is not revealed yet
Unrevealed(b) == ByteLen(b.displayed_text) < ByteLen(b.text)

\* a committed block of lines has unrevealed text
OlderTextPending(lines) == \E i \in 1..Len(lines) : Unrevealed(lines[i])

\* the revealed text of the block after is that of the block before and
\* one character more
Advanced(before, after) ==
    /\ Len(after.displayed_text) = Len(before.displayed_text) + 1
    /\ Take(after.displayed_text, Len(before.displayed_text))
           = before.displayed_text

\* the last update_animation drained batches, and after them a committed
\* block had unrevealed text
DrainedWithPending ==
    /\ lifecycle = Running
    /\ ~hung
    /\ processed # <<>>
    /\ OlderTextPending(LastPost.finishes_lines)

(***************************************************************************)
(* C32  Reading order of the reveal: in a tick in which a committed block  *)
(* still has unrevealed text, the revealed text of the interim line is     *)
(* not advanced; the interim line is animated only in ticks where every    *)
(* committed block is fully revealed.  Stated for the ticks that drain     *)
(* batches (the blocks after the drain are those of the last record) and   *)
(* for the ticks that find no batch.                                       *)
(***************************************************************************)
C32_ReadingOrder ==
    /\ [](DrainedWithPending
              => ~Advanced(LastPost.interim_line, interim_line))
    /\ [][(/\ now' = now + 1
           /\ event_queue = <<>>
           /\ OlderTextPending(finishes_lines))
          => ~Advanced(interim_line, interim_line')]_vars

(***************************************************************************)
(* C33  For every committed block in every reachable state, after any      *)
(* sequence of commits, merges, backtracks, evictions and animation        *)
(* ticks, the length of its revealed text (displayed_text) does not        *)
(* exceed the length of its full text; the revealed text is a prefix of    *)
(* the full text.                                                          *)
(***************************************************************************)
C33_RevealedWithinText ==
    (lifecycle = Running)
    => \A i \in 1..Len(finishes_lines) :
           /\ Len(finishes_lines[i].displayed_text)
                  <= Len(finishes_lines[i].text)
           /\ ByteLen(finishes_lines[i].displayed_text)
                  <= ByteLen(finishes_lines[i].text)
           /\ StartsWith(finishes_lines[i].text,
                         finishes_lines[i].displayed_text)

\* a block whose text was partly revealed had a chunk merged into it and
\* has more text to reveal
C33_Witness ==
    /\ lifecycle = Running
    /\ \E e \in Entries :
           /\ e.pre.finishes_lines # <<>>
           /\ e.post.finishes_lines # <<>>
           /\ e.pre.finishes_lines[1].displayed_text # <<>>
           /\ Len(e.post.finishes_lines[1].text)
                  > Len(e.pre.finishes_lines[1].text)
           /\ StartsWith(e.post.finishes_lines[1].text,
                         e.pre.finishes_lines[1].text)
           /\ Len(e.post.finishes_lines[1].displayed_text)
                  < Len(e.post.finishes_lines[1].text)
    /\ finishes_lines # <<>>
    /\ finishes_lines[1].displayed_text # <<>>

\* the revealed text the interim line is specified to have after its text
\* was replaced by new_text: kept when the old text is a prefix of the new
\* text or the revealed text is, else empty
RevisedReveal(old, new_text) ==
    IF StartsWith(new_text, old.text) THEN old.displayed_text
    ELSE IF StartsWith(new_text, old.displayed_text) THEN old.displayed_text
    ELSE <<>>

(***************************************************************************)
(* C34  Interim revision handling: when the text of the interim line is    *)
(* replaced, the revealed prefix is kept if the old text is a prefix of    *)
(* the new text; otherwise it is reset to empty if and only if it is not   *)
(* a prefix of the new text.  As a result the revealed text of the interim *)
(* line is a prefix of its full text after every interim update.           *)
(***************************************************************************)
C34_InterimRevision ==
    \A e \in Entries :
        (InterimOnly(e) /\ ~e.post.hung)
        => /\ e.post.interim_line.displayed_text
                  = RevisedReveal(e.pre.interim_line, e.post.interim_line.text)
           /\ StartsWith(e.post.interim_line.text,
                         e.post.interim_line.displayed_text)

\* the committed blocks are as many as the engine keeps
Full == Len(finishes_lines) = max_lines - 1

C37_CountWithinBlocks ==
    lifecycle = Running => frozen_blocks_count <= Len(finishes_lines)

(***************************************************************************)
(* C37, amended  The speculative block count is at most the number of      *)
(* committed blocks unless speculative blocks were evicted: it exceeds the *)
(* number only when the committed blocks are as many as the engine keeps,  *)
(* and the backtrack then discards all of them.                            *)
(***************************************************************************)
C37_CountWithinBlocksOrFull ==
    /\ lifecycle = Running
           => (frozen_blocks_count <= Len(finishes_lines) \/ Full)
    /\ \A e \in Entries :
           (/\ InterimOnly(e)
            /\ Drifted(e)
            /\ ~e.post.hung
            /\ e.pre.frozen_blocks_count > Len(e.pre.finishes_lines))
           => e.post.finishes_lines
                  = CommitOf(e, <<>>, Classified(e).interim_speaker,
                             e.post.frozen_interim_history)

\* an engine that keeps one committed block froze two chunks: two blocks
\* are counted, one is left
C37_Witness ==
    /\ lifecycle = Running
    /\ max_lines = 2
    /\ Len(finishes_lines) = 1
    /\ frozen_blocks_count = 2

\* the age of a queue entry at the update_animation about to run
Age(entry) == TickInstant - entry.timestamp

\* what an update_animation that returns does to the pending queue: it
\* processes, in order, the entries as old as the delay and leaves the
\* younger ones; with the default delay it leaves none
DrainsDue ==
    /\ Responses(processed') \o Responses(event_queue')
           = Responses(event_queue)
    /\ \A i \in 1..Len(processed') : Age(event_queue[i]) >= smart_delay_ms
    /\ \A i \in (Len(processed') + 1)..Len(event_queue) :
           Age(event_queue[i]) < smart_delay_ms
    /\ smart_delay_ms = 0 => event_queue' = <<>>

(***************************************************************************)
(* C36  Draining: with the default delay of zero every tick processes      *)
(* every pending entry, so the queue is empty when update_animation        *)
(* returns and every enqueued batch that was not replaced by collapsing is *)
(* processed by the next tick; with a non-zero delay an entry is processed *)
(* by the first tick at which its age is at least the delay, so that every *)
(* entry is processed after no more ticks than the clock needs to reach    *)
(* the delay.                                                              *)
(***************************************************************************)
C36_Draining == [][(now' = now + 1 /\ ~hung') => DrainsDue]_vars

\* with a non-zero delay an update_animation processed the entry that was
\* old enough and left a younger one pending
C36_Witness ==
    /\ lifecycle = Running
    /\ ~hung
    /\ smart_delay_ms > 0
    /\ processed # <<>>
    /\ event_queue # <<>>
    /\ now > 1

\* the batch of entry e has visible interim text
ShowsInterim(e) == Classified(e).full_interim_text # <<>>

\* the history and the interim line after the batch of entry e, end to end
Reassembled(e) == e.post.frozen_interim_history \o e.post.interim_line.text

\* the batch of entry e froze a prefix of its interim text and kept a rest
FrozeAndKept(e) ==
    /\ ShowsInterim(e)
    /\ ~e.post.hung
    /\ Len(e.post.frozen_interim_history) > Len(e.pre.frozen_interim_history)
    /\ e.post.interim_line.text # <<>>

(***************************************************************************)
(* C38  After a processed batch whose visible interim text F is not empty, *)
(* the frozen history followed by the text of the interim line is F: a     *)
(* freeze moves a prefix of the interim text past the history into the     *)
(* history and leaves the rest on the interim line, no character lost and  *)
(* none twice.                                                             *)
(***************************************************************************)
C38_FreezeConservesText ==
    \A e \in Entries :
        (ShowsInterim(e) /\ ~e.post.hung)
        => /\ Reassembled(e) = Classified(e).full_interim_text
           /\ StartsWith(Classified(e).full_interim_text,
                         e.post.frozen_interim_history)

\* a batch froze a sentence or an overflow and kept the rest as interim text
C38_Witness == lifecycle = Running /\ \E e \in Entries : FrozeAndKept(e)

\* the texts update_interim is tried with
InterimTexts == {<<>>, Txt_c, Txt_aDotB}

\* the newest committed block of lines has the speaker
ContinuesSpeaker(lines, speaker) ==
    lines # <<>> /\ lines[1].speaker = speaker

\* the speaker update_interim leaves on the interim line: none on a line
\* that continues the newest block of the same speaker
LabelOf(lines, speaker) ==
    IF ContinuesSpeaker(lines, speaker) THEN NoSpeaker ELSE speaker

\* update_interim left blocks, history and count of s as they were in r
InterimOnlyTouched(s, r) ==
    /\ r.finishes_lines = s.finishes_lines
    /\ r.frozen_interim_history = s.frozen_interim_history
    /\ r.frozen_blocks_count = s.frozen_blocks_count

\* the interim line the last update_interim of the batch of entry e was
\* asked for
AskedSpeaker(e) == Classified(e).interim_speaker

AskedText(e) ==
    Drop(Classified(e).full_interim_text, Len(e.post.frozen_interim_history))

(***************************************************************************)
(* C39 as stated: after update_interim with speaker s and text t the       *)
(* interim line has speaker s and text t, whether or not s is the speaker  *)
(* of the newest committed block, and blocks, history and count are        *)
(* unchanged.                                                              *)
(***************************************************************************)
C39_InterimKeepsSpeaker ==
    /\ \A speaker \in Speakers, text \in InterimTexts :
           /\ UpdateInterim(Engine, speaker, text).interim_line.speaker
                  = speaker
           /\ UpdateInterim(Engine, speaker, text).interim_line.text = text
           /\ InterimOnlyTouched(Engine,
                                 UpdateInterim(Engine, speaker, text))
    /\ \A e \in Entries :
           (ShowsInterim(e) /\ ~e.post.hung)
           => /\ e.post.interim_line.speaker = AskedSpeaker(e)
              /\ e.post.interim_line.text = AskedText(e)

(***************************************************************************)
(* C39  update_interim with speaker s and text t leaves text t on the      *)
(* interim line; the line has speaker s when s is not the speaker of the   *)
(* newest committed block or no block exists, and no speaker when s is     *)
(* the speaker of the newest committed block.  In neither case are the     *)
(* committed blocks, the frozen history or the speculative count changed.  *)
(***************************************************************************)
C39_InterimSpeakerUnlessContinued ==
    /\ \A speaker \in Speakers, text \in InterimTexts :
           /\ UpdateInterim(Engine, speaker, text).interim_line.speaker
                  = LabelOf(finishes_lines, speaker)
           /\ UpdateInterim(Engine, speaker, text).interim_line.text = text
           /\ InterimOnlyTouched(Engine,
                                 UpdateInterim(Engine, speaker, text))
    /\ \A e \in Entries :
           (ShowsInterim(e) /\ ~e.post.hung)
           => /\ e.post.interim_line.speaker
                     = LabelOf(e.post.finishes_lines, AskedSpeaker(e))
              /\ e.post.interim_line.text = AskedText(e)

\* a batch left interim text of the speaker of the newest committed block,
\* and another left interim text of another speaker
C39_Witness ==
    /\ lifecycle = Running
    /\ \E e \in Entries :
           /\ ShowsInterim(e) /\ ~e.post.hung
           /\ AskedSpeaker(e) # NoSpeaker
           /\ AskedText(e) # <<>>
           /\ ContinuesSpeaker(e.post.finishes_lines, AskedSpeaker(e))
    /\ \E e \in Entries :
           /\ ShowsInterim(e) /\ ~e.post.hung
           /\ e.post.finishes_lines # <<>>
           /\ ~ContinuesSpeaker(e.post.finishes_lines, AskedSpeaker(e))

(***************************************************************************)
(* The transport: listen_soniox_stream (stream.rs 17-135).                 *)
(***************************************************************************)
Text == "text"
Binary == "binary"

\* the request as serde_json::to_vec left it
RequestBytes == <<"{", "}">>

\* a message handed to write.send, with whether the send succeeded
Sent(kind, len, ok) == [kind |-> kind, len |-> len, ok |-> ok]

\* the bytes of a buffer as 16-bit samples (stream.rs 102-106)
Pcm16Len(buffer_len) == 2 * buffer_len

Connecting == "connecting"
Configuring == "configuring"
AudioLoop == "audio loop"
Ended == "ended"

Pending == "pending"
ReturnedOk == "Ok"
ReturnedErr == "Err"

\* the function entered: no connection yet, nothing received
StreamStart ==
    [pc |-> Connecting, result |-> Pending, stopped |-> FALSE,
     connections |-> <<>>, readers |-> 0, received |-> 0]

\* write.send(message).await on the connection of this iteration
WriteSend(st, message) ==
    [st EXCEPT !.connections[Len(st.connections)] = Append(@, message)]

\* return Err(...) (stream.rs 31, 41)
ReturnErr(st) == [st EXCEPT !.pc = Ended, !.result = ReturnedErr]

\* connect_async(url).await (stream.rs 27-33)
OnConnect(st, ok) ==
    IF ok
    THEN [st EXCEPT !.pc = Configuring, !.connections = Append(@, <<>>)]
    ELSE ReturnErr(st)

\* the initial JSON and the reader task (stream.rs 36-88)
OnConfigure(st, ok) ==
    IF ok
    THEN [WriteSend(st, Sent(Text, Len(RequestBytes), TRUE))
             EXCEPT !.pc = AudioLoop, !.readers = @ + 1]
    ELSE ReturnErr(WriteSend(st, Sent(Text, Len(RequestBytes), FALSE)))

\* after the audio loop: the empty frame, break, Ok (stream.rs 125-134)
Finish(st, ok) ==
    [WriteSend(st, Sent(Binary, 0, ok))
        EXCEPT !.pc = Ended, !.result = ReturnedOk]

\* AudioMessage::Audio(buffer) (stream.rs 93-115)
OnAudio(st, buffer_len, ok) ==
    IF buffer_len = 0
    THEN Finish(st, ok)
    ELSE IF ok
    THEN WriteSend(st, Sent(Binary, Pcm16Len(buffer_len), TRUE))
    ELSE [WriteSend(st, Sent(Binary, Pcm16Len(buffer_len), FALSE))
             EXCEPT !.pc = Connecting]

\* a Stop that leaves only the audio loop
OnStopFallsThrough(st, ok) ==
    Finish(WriteSend([st EXCEPT !.stopped = TRUE], Sent(Binary, 0, ok)), ok)

\* AudioMessage::Stop (stream.rs 116-120)
OnStop(st, ok) ==
    [WriteSend([st EXCEPT !.stopped = TRUE], Sent(Binary, 0, ok))
        EXCEPT !.pc = Ended, !.result = ReturnedOk]

\* the application about to stream, the engine built
InitStream ==
    /\ FreshEngine
    /\ smart_delay_ms = 0
    /\ service = Steady(Phrases)
    /\ stream = StreamStart

ConnectStream ==
    /\ stream.pc = Connecting
    /\ \E ok \in BOOLEAN : stream' = OnConnect(stream, ok)
    /\ UNCHANGED engine_vars

SendConfiguration ==
    /\ stream.pc = Configuring
    /\ \E ok \in BOOLEAN : stream' = OnConfigure(stream, ok)
    /\ UNCHANGED engine_vars

\* rx_audio.recv() yields an audio buffer
ReceiveAudio ==
    /\ stream.pc = AudioLoop
    /\ stream.received < MaxFrames
    /\ \E buffer_len \in 0..MaxBuffer, ok \in BOOLEAN :
           stream' = OnAudio([stream EXCEPT !.received = @ + 1],
                             buffer_len, ok)
    /\ UNCHANGED engine_vars

\* rx_audio.recv() yields Stop
ReceiveStop ==
    /\ stream.pc = AudioLoop
    /\ \E ok \in BOOLEAN : stream' = OnStop(stream, ok)
    /\ UNCHANGED engine_vars

\* rx_audio.recv() yields None: the senders are gone
ChannelClosed ==
    /\ stream.pc = AudioLoop
    /\ \E ok \in BOOLEAN : stream' = Finish(stream, ok)
    /\ UNCHANGED engine_vars

NextStream ==
    ConnectStream \/ SendConfiguration \/ ReceiveAudio \/ ReceiveStop
        \/ ChannelClosed

SpecStream == InitStream /\ [][NextStream]_vars

\* a binary frame with audio in it, and the empty one that ends the stream
AudioFrame(m) == m.kind = Binary /\ m.len > 0

EndOfStream(m) == m.kind = Binary /\ m.len = 0

\* how many messages of the connection c satisfy the test
AudioFramesOn(c) == Cardinality({i \in 1..Len(c) : AudioFrame(c[i])})

EndFramesOn(c) == Cardinality({i \in 1..Len(c) : EndOfStream(c[i])})

RECURSIVE Total(_, _)
\* the sum of count[i] over the first n connections
Total(count, n) == IF n = 0 THEN 0 ELSE count[n] + Total(count, n - 1)

AudioFramesSent(st) ==
    Total([i \in 1..Len(st.connections) |-> AudioFramesOn(st.connections[i])],
          Len(st.connections))

EndFramesSent(st) ==
    Total([i \in 1..Len(st.connections) |-> EndFramesOn(st.connections[i])],
          Len(st.connections))

\* on the connection c nothing went out before the configuration did, and
\* audio only after the configuration had been sent
ConfigurationFirst(c) ==
    /\ c # <<>> => c[1].kind = Text
    /\ \A i \in 1..Len(c) : AudioFrame(c[i]) => (i > 1 /\ c[1].ok)
    /\ \A i \in 2..Len(c) : c[i].kind = Binary

\* the connection of the last iteration
Current(st) == st.connections[Len(st.connections)]

\* the function has ended with a connection on which no send of the
\* configuration or of audio had failed
EndedLive(st) ==
    /\ st.pc = Ended
    /\ st.connections # <<>>
    /\ Current(st) # <<>>
    /\ \A i \in 1..Len(Current(st)) :
           EndOfStream(Current(st)[i]) \/ Current(st)[i].ok

\* the last message on the current connection is the one end-of-stream
\* frame of the run
EndsStreamOnce(st) ==
    /\ EndFramesSent(st) = 1
    /\ EndOfStream(Current(st)[Len(Current(st))])

TransportOrder ==
    /\ \A i \in 1..Len(stream.connections) :
           ConfigurationFirst(stream.connections[i])
    /\ stream.stopped => (stream.pc = Ended /\ EndedLive(stream))
    /\ EndedLive(stream)
           => (stream.result = ReturnedOk /\ EndsStreamOnce(stream))
    /\ (stream.pc = Ended /\ ~EndedLive(stream))
           => (stream.result = ReturnedErr /\ EndFramesSent(stream) = 0)
    /\ stream.pc # Ended => EndFramesSent(stream) = 0

\* once Stop has been received no step sends an audio frame, the step that
\* receives it included
SilentAfterStop ==
    stream'.stopped => AudioFramesSent(stream') = AudioFramesSent(stream)

(***************************************************************************)
(* C40  Transport order in listen_soniox_stream: on every connection, the  *)
(* first and each one made after a failed audio send, the configuration    *)
(* text message is sent before any binary audio frame; after a Stop        *)
(* message is received no audio frame is sent; and whenever the function   *)
(* ends with a live connection (Stop, an empty buffer or the audio channel *)
(* closed) exactly one empty binary frame is sent, as the last message,    *)
(* while an end without one (a failed connect or a failed configuration    *)
(* send) sends none.                                                       *)
(***************************************************************************)
C40_TransportOrder == []TransportOrder /\ [][SilentAfterStop]_vars

\* a Stop ended a run that had reconnected after a failed audio send and
\* had sent audio on the new connection
C40_Witness ==
    /\ stream.stopped
    /\ EndedLive(stream)
    /\ Len(stream.connections) > 1
    /\ AudioFramesOn(Current(stream)) > 0
    /\ \E i \in 1..Len(stream.connections[1]) :
           AudioFrame(stream.connections[1][i]) /\ ~stream.connections[1][i].ok

====
